---- MODULE Spec2Model ----
(***************************************************************************)
(* Verification model of the memory-stream core of phi.network:            *)
(*   - the segmented pack builder (buildSegmentedPack and its helpers),    *)
(*   - the persisted URL registry (upsertUrlList, prune),                  *)
(*   - the in-memory chain graph with batched notifications,               *)
(*   - the thread-root walk and the content keys,                          *)
(*   - the canonical JSON codec behind payload references.                 *)
(* Each component has its own specification (SpecPack, SpecReg, ...); the  *)
(* variables of the other components stay at their idle values.            *)
(***************************************************************************)
EXTENDS Integers, Sequences, FiniteSets, TLC

VARIABLES
    pkRoot,     \* rootRef handed to buildSegmentedPack
    pkAdds,     \* adds handed to buildSegmentedPack (oldest -> newest)
    pkOut,      \* the pack buildSegmentedPack returned
    pkFit,      \* what segmentTailToFit returned
    pkCall,     \* the pending recursive call of buildSegmentedPack: root, adds, guard
    pkPhase,    \* "idle" | "input" | "fitted" | "building" | "built"
    lsKey,      \* which persisted store is tracked: EXPLORER_LS_KEY or FEED_LS_KEY
    lsStore,    \* the string array persisted under lsKey
    regOp,      \* the last upsertUrlList call on the store and what it did
    chain,          \* CHAIN: the nodes in Map insertion order
    chainTick,      \* CHAIN_TICK
    chainVersion,   \* CHAIN_VERSION
    chainPending,   \* CHAIN_NOTIFY_PENDING
    chainListeners, \* CHAIN_LISTENERS
    microtasks,     \* number of queued run() microtasks
    inTask,         \* a synchronous block (a commit running layout effects) is executing
    batchChanged,   \* state-changing upserts since the current tick began
    batchNotifs,    \* run() executions since the current tick began
    lastNotified,   \* what the listeners were shown by the last run()
    wIn,        \* threadRootRefFromUrlLike: the input and the capsules behind it
    wCur,       \* curRef
    wPayload,   \* payload (0 is null)
    wSeen,      \* seen
    wI,         \* i
    wPc,        \* "idle" | "loop" | "done"
    wOut,       \* the returned ref and why the walk stopped
    kIn,        \* a capsule and two transport forms of it
    kKeys,      \* the keys derived from the two forms, per place of derivation
    kPc,        \* "idle" | "input" | "derived"
    cxVal,      \* the value handed to encodePayloadRef
    cxAlt,      \* the same value with object members inserted in another order
    cxOut,      \* the payload ref, the canonical texts and the payload keys
    cxBack,     \* what decodePayloadRef returned for the ref
    cxPc,       \* "idle" | "input" | "encoded" | "decoded"
    dIn,        \* the string handed to a decode operation, and which operation
    dOut,       \* what the operation returned, or that an exception left it
    dPc,        \* "idle" | "input" | "done"
    aGraph,     \* the nodes of CHAIN when buildPrevAddsFromChain is called
    aIn,        \* its arguments: selfKey, limit
    aOut,       \* the list it returned
    aPc,        \* "idle" | "input" | "done"
    lkPayload,  \* the FeedPostPayload handed to a link producer
    lkLink,     \* the link the producer returned
    lkUi,       \* the composer's state (err, warn, copied, generatedUrl, tokenLength, busy)
    lkRegistered,\* links handed to registerSigilUrl
    lkRead,     \* what extractPayloadTokenFromLocation read from the opened link
    lkPc,       \* idle | input | emitted | opened
    tbMode,     \* how window.localStorage behaves: ok | undefined | quota | throws
    tbStore,    \* the blob persisted under each localStorage key
    tbTab,      \* per tab, the registry call in progress and its local values
    tbChan,     \* BroadcastChannel messages posted and not yet delivered
    tbPending,  \* per tab, REG_NOTIFY_PENDING
    tbSeen,     \* per tab, the URLs its listeners read at the last run()
    tbUpserted, \* the URLs whose upsert into the explorer store has returned
    tbOps,      \* registry calls started so far
    tvIn,       \* the card being viewed (nodeOk, url, whether it has a /s url) and the registry URLs
    tvOut,      \* the thread view: origin, replies and the bestByKey entries in Map order
    tvPc,       \* idle | input | done
    kvSession,  \* session of useSession (SessionProvider)
    kvStep,     \* step
    kvPost,     \* post (0 is null)
    kvSealed,   \* sealed (0 is null)
    kvFinalMedia,\* finalMedia (0 is null)
    kvVerifierData,\* verifierData (0 is null)
    kvFlowError \* flowError (the empty string is null)

pkVars == <<pkRoot, pkAdds, pkOut, pkFit, pkCall, pkPhase>>

regVars == <<lsKey, lsStore, regOp>>

chVars == <<chain, chainTick, chainVersion, chainPending, chainListeners,
            microtasks, inTask, batchChanged, batchNotifs, lastNotified>>

wkVars == <<wIn, wCur, wPayload, wSeen, wI, wPc, wOut>>

keyVars == <<kIn, kKeys, kPc>>

cxVars == <<cxVal, cxAlt, cxOut, cxBack, cxPc>>

dcVars == <<dIn, dOut, dPc>>

ancVars == <<aGraph, aIn, aOut, aPc>>

lkVars == <<lkPayload, lkLink, lkUi, lkRegistered, lkRead, lkPc>>

tbVars == <<tbMode, tbStore, tbTab, tbChan, tbPending, tbSeen, tbUpserted, tbOps>>

tvVars == <<tvIn, tvOut, tvPc>>

kvVars == <<kvSession, kvStep, kvPost, kvSealed, kvFinalMedia, kvVerifierData, kvFlowError>>

vars == <<pkVars, regVars, chVars, wkVars, keyVars, cxVars, dcVars, ancVars, lkVars, tbVars, tvVars, kvVars>>

\* What the operations of one component leave alone.
notPack == <<regVars, chVars, wkVars, keyVars, cxVars, dcVars, ancVars, lkVars, tbVars, tvVars, kvVars>>

notReg == <<pkVars, chVars, wkVars, keyVars, cxVars, dcVars, ancVars, lkVars, tbVars, tvVars, kvVars>>

notChain == <<pkVars, regVars, wkVars, keyVars, cxVars, dcVars, ancVars, lkVars, tbVars, tvVars, kvVars>>

notWalk == <<pkVars, regVars, chVars, keyVars, cxVars, dcVars, ancVars, lkVars, tbVars, tvVars, kvVars>>

notKeys == <<pkVars, regVars, chVars, wkVars, cxVars, dcVars, ancVars, lkVars, tbVars, tvVars, kvVars>>

notCodec == <<pkVars, regVars, chVars, wkVars, keyVars, dcVars, ancVars, lkVars, tbVars, tvVars, kvVars>>

notDecode == <<pkVars, regVars, chVars, wkVars, keyVars, cxVars, ancVars, lkVars, tbVars, tvVars, kvVars>>

notAnc == <<pkVars, regVars, chVars, wkVars, keyVars, cxVars, dcVars, lkVars, tbVars, tvVars, kvVars>>

notLink == <<pkVars, regVars, chVars, wkVars, keyVars, cxVars, dcVars, ancVars, tbVars, tvVars, kvVars>>

notTabs == <<pkVars, regVars, chVars, wkVars, keyVars, cxVars, dcVars, ancVars, lkVars, tvVars, kvVars>>

notThread == <<pkVars, regVars, chVars, wkVars, keyVars, cxVars, dcVars, ancVars, lkVars, tbVars, kvVars>>

notFlow == <<pkVars, regVars, chVars, wkVars, keyVars, cxVars, dcVars, ancVars, lkVars, tbVars, tvVars>>

(***************************************************************************)
(* Generic helpers                                                         *)
(***************************************************************************)
Range(s) == {s[i] : i \in DOMAIN s}

SeqsUpTo(S, n) == UNION {[1..k -> S] : k \in 0..n}

Min2(a, b) == IF a < b THEN a ELSE b

Max2(a, b) == IF a > b THEN a ELSE b

RECURSIVE Digits(_)
\* Number of decimal digits JSON.stringify writes for a non-negative integer.
Digits(n) == IF n < 10 THEN 1 ELSE 1 + Digits(n \div 10)

(***************************************************************************)
(* SegmentBuilder: references are abstracted to identity, kind and length. *)
(*   kind "j": payload ref  j:<base64url>   (one ':' to percent-escape)    *)
(*   kind "u": normalized open URL https://x.invalid/stream#t=<token>      *)
(***************************************************************************)
URL_HARD_CAP == 120000

GUARD_MAX == 64

\* Bounds of the explored inputs.
MaxAdds == 4

MaxUniform == 8

RefLens == {200, 39000, 70000, 130000}

RootLens == {5, 200, 70000, 130000}

RefShapes == [kind : {"j"}, len : RefLens] \cup {[kind |-> "u", len |-> 300]}

NoRef == [id |-> 0, kind |-> "j", len |-> 0]

MkRef(i, shape) == [id |-> i, kind |-> shape.kind, len |-> shape.len]

\* "https://x.invalid/stream": streamBaseHref() resolved against originForParse().
BaseHrefLen == 24

\* Characters of a ref that URLSearchParams.toString() percent-escapes (+2 each).
EscCount(ref) == IF ref.kind = "j" THEN 1 ELSE 6

EncLen(ref) == ref.len + 2 * EscCount(ref)

\* short(rootRef, 8, 6): UTF-8 bytes of the result (the ellipsis takes 3 bytes).
ShortBytes(ref) == IF ref.len <= 14 THEN ref.len ELSE 8 + 3 + 6

\* Bytes of JSON.stringify(deepSortForJson(meta)):
\* {"a":A,"id":"seg:<16 hex>:N","m":"<16 hex>","n":N,"r":"<short>","v":"2"}
SegMetaJsonBytes(rootRef, n, a) == 78 + Digits(a) + 2 * Digits(n) + ShortBytes(rootRef)

\* Length of base64url without padding of b bytes.
B64UrlLen(b) == (4 * b + 2) \div 3

\* encodeSegMeta: "s:" + base64url(canon); the ':' is percent-escaped in the URL.
EncSegMetaLen(rootRef, n, a) == 2 + B64UrlLen(SegMetaJsonBytes(rootRef, n, a)) + 2

RECURSIVE SumAddLen(_)
\* "&add=" + escaped ref, for every add.
SumAddLen(adds) ==
    IF adds = <<>> THEN 0 ELSE 5 + EncLen(Head(adds)) + SumAddLen(Tail(adds))

\* Length of  <base>#v=2&root=<root>&seg=<seg>(&add=<add>)*
UrlLen(rootRef, adds) ==
    BaseHrefLen + 1 + 3 + 6 + EncLen(rootRef) + 5
        + EncSegMetaLen(rootRef, Len(adds) + 1, Len(adds)) + SumAddLen(adds)

buildMemoryStreamUrl(rootRef, adds) ==
    [ urlLen  |-> UrlLen(rootRef, adds),
      rootRef |-> rootRef,
      adds    |-> adds,
      meta    |-> [n |-> Len(adds) + 1, a |-> Len(adds)] ]

RECURSIVE fibLoop(_, _, _)
fibLoop(a, b, x) == IF a + b > x THEN b ELSE fibLoop(b, a + b, x)

fibFloor(n) ==
    LET x == Max2(0, n) IN IF x <= 2 THEN x ELSE fibLoop(1, 2, x)

\* adds.slice(k) with a 0-based k.
SliceFrom(adds, k) == SubSeq(adds, k + 1, Len(adds))

RECURSIVE tailSearch(_, _, _, _)
\* The while (lo < hi) loop of segmentTailToFit; returns the final lo.
tailSearch(rootRef, adds, lo, hi) ==
    IF lo < hi
    THEN LET mid == (lo + hi) \div 2
         IN  IF buildMemoryStreamUrl(rootRef, SliceFrom(adds, mid)).urlLen <= URL_HARD_CAP
             THEN tailSearch(rootRef, adds, lo, mid)
             ELSE tailSearch(rootRef, adds, mid + 1, hi)
    ELSE lo

segmentTailToFit(rootRef, adds) ==
    LET lo        == tailSearch(rootRef, adds, 0, Len(adds))
        maxKept   == Len(adds) - lo
        snap      == fibFloor(maxKept)
        keptCount == Max2(0, Min2(maxKept, IF snap > 0 THEN snap ELSE maxKept))
        keepFrom  == Len(adds) - keptCount
    IN  [keepFrom |-> keepFrom, kept |-> SliceFrom(adds, keepFrom)]

\* A recursion that nothing cuts short.
GuardExceeded_never(guard) == FALSE

\* if (guard > 64)
GuardExceeded(guard) == guard > GUARD_MAX

\* One call of buildSegmentedPack up to its recursive call: the primary it
\* returns and, where it recurses (more), the arguments of that call.
packFrame(rootRef, adds, guard) ==
    LET done(seg) == [primary |-> seg, more |-> FALSE, nextRoot |-> NoRef, dropped |-> <<>>] IN
    IF GuardExceeded(guard)
    THEN done(buildMemoryStreamUrl(rootRef, <<>>))
    ELSE
    LET full == buildMemoryStreamUrl(rootRef, adds) IN
    IF full.urlLen <= URL_HARD_CAP
    THEN done(full)
    ELSE
    LET fit     == segmentTailToFit(rootRef, adds)
        primary == buildMemoryStreamUrl(rootRef, fit.kept)
    IN
    IF primary.urlLen > URL_HARD_CAP
    THEN done(buildMemoryStreamUrl(rootRef, <<>>))
    ELSE IF fit.keepFrom <= 0
    THEN done(primary)
    ELSE IF fit.kept = <<>>      \* boundaryRoot = kept[0] is undefined
    THEN done(primary)
    ELSE [primary |-> primary, more |-> TRUE,
          nextRoot |-> fit.kept[1], dropped |-> SubSeq(adds, 1, fit.keepFrom)]

RECURSIVE buildSegmentedPack(_, _, _)
buildSegmentedPack(rootRef, adds, guard) ==
    LET frame == packFrame(rootRef, adds, guard) IN
    IF ~frame.more
    THEN [primary |-> frame.primary, archives |-> <<>>]
    ELSE LET archivePack == buildSegmentedPack(frame.nextRoot, frame.dropped, guard + 1)
         IN  [primary |-> frame.primary,
              archives |-> <<archivePack.primary>> \o archivePack.archives]

(***************************************************************************)
(* Registry: a persisted string array of URLs per localStorage key.        *)
(* A URL is abstracted to what the registry reads from it: its registry    *)
(* key (keyForRegistryUrl), the key of its thread root                     *)
(* (threadRootKeyFromUrlLike), its number of add entries and its length.   *)
(***************************************************************************)
EXPLORER_LS_KEY == "sigil:urls"

FEED_LS_KEY == "sigil:feed"

RegKeys == {"t:A", "r:B"}

ThreadKeys == {"k:1", "k:2"}

UrlLens == {60, 100060}

UrlAdds == {0, 1}

RegUrls == [key : RegKeys, thread : ThreadKeys, adds : UrlAdds, len : UrlLens]

keyForRegistryUrl(u) == u.key

threadRootKeyFromUrlLike(u) == u.thread

countAddsInUrl(u) == u.adds

registryScore(u) == countAddsInUrl(u) * 100000 + u.len

\* Index of the first item of items whose registry key is k, 0 when none.
IndexOfKey(items, k) ==
    IF \E i \in DOMAIN items : keyForRegistryUrl(items[i]) = k
    THEN CHOOSE i \in DOMAIN items :
            /\ keyForRegistryUrl(items[i]) = k
            /\ \A j \in 1..(i - 1) : keyForRegistryUrl(items[j]) # k
    ELSE 0

RECURSIVE dedupBest(_, _)
\* The loop over existing: one item per key in first-seen order (order[] and
\* bestByKey together), an item replaced in place by a strictly better one.
dedupBest(existing, items) ==
    IF existing = <<>> THEN items
    ELSE LET c == Head(existing)
             i == IndexOfKey(items, keyForRegistryUrl(c))
         IN  IF i = 0
             THEN dedupBest(Tail(existing), Append(items, c))
             ELSE IF registryScore(c) > registryScore(items[i])
             THEN dedupBest(Tail(existing), [items EXCEPT ![i] = c])
             ELSE dedupBest(Tail(existing), items)

StrictlyGreater(a, b) == a > b

GreaterOrEqual(a, b) == a >= b

\* upsertUrlList with the comparison of the new URL against the prior one
\* either strict (newScore > priorScore, as written) or weakened to >=.
upsertWith(existing, canonical, orEqual) ==
    LET items == dedupBest(existing, <<>>)
        i     == IndexOfKey(items, keyForRegistryUrl(canonical))
        added == (i = 0)
        updated == /\ i # 0
                   /\ IF orEqual
                      THEN GreaterOrEqual(registryScore(canonical), registryScore(items[i]))
                      ELSE StrictlyGreater(registryScore(canonical), registryScore(items[i]))
        next  == IF added THEN Append(items, canonical)
                 ELSE IF updated THEN [items EXCEPT ![i] = canonical]
                 ELSE items
    IN  [ next |-> next, changed |-> (next # existing),
          added |-> added, updated |-> updated, value |-> canonical ]

upsertUrlList_ge(existing, canonical) == upsertWith(existing, canonical, TRUE)

upsertUrlList(existing, canonical) == upsertWith(existing, canonical, FALSE)

RECURSIVE dedupPreserveOrder(_, _)
dedupPreserveOrder(list, out) ==
    IF list = <<>> THEN out
    ELSE IF \E i \in DOMAIN out : out[i] = Head(list)
    THEN dedupPreserveOrder(Tail(list), out)
    ELSE dedupPreserveOrder(Tail(list), Append(out, Head(list)))

pruneFeedDuplicatesForThread(existing, rootKey, keep) ==
    LET next == SelectSeq(existing, LAMBDA c : threadRootKeyFromUrlLike(c) # rootKey)
    IN  dedupPreserveOrder(<<keep>> \o next, <<>>)

NoUrl == [key |-> "", thread |-> "", adds |-> 0, len |-> 0]

NoOp == [ kind |-> "none", url |-> NoUrl, rootKey |-> "", before |-> <<>>,
          after |-> <<>>, changed |-> FALSE, added |-> FALSE, updated |-> FALSE,
          notified |-> FALSE ]

RegIdle ==
    /\ lsKey = EXPLORER_LS_KEY
    /\ lsStore = <<>>
    /\ regOp = NoOp

RegInit ==
    /\ lsKey \in {EXPLORER_LS_KEY, FEED_LS_KEY}
    /\ lsStore = <<>>
    /\ regOp = NoOp

\* Auto-register, explorer part: upsertUrlList(EXPLORER_LS_KEY, s) for a seed
\* ref, and notifyExplorer if (ex.changed).
RegisterExplorer ==
    /\ lsKey = EXPLORER_LS_KEY
    /\ \E u \in RegUrls :
          LET r == upsertUrlList(lsStore, u)
          IN  /\ lsStore' = r.next
              /\ regOp' = [ kind |-> "upsert", url |-> u, rootKey |-> "",
                            before |-> lsStore,
                            after |-> r.next, changed |-> r.changed,
                            added |-> r.added, updated |-> r.updated,
                            notified |-> r.changed ]
    /\ UNCHANGED <<lsKey, notReg>>

\* Auto-register, feed part: upsertUrlList(FEED_LS_KEY, threadRootHref),
\* notifyFeed if (fd.changed), then
\* pruneFeedDuplicatesForThread(rootKey, threadRootHref).
RegisterFeed ==
    /\ lsKey = FEED_LS_KEY
    /\ \E h \in RegUrls, rootKey \in ThreadKeys :
          LET r == upsertUrlList(lsStore, h)
          IN  /\ lsStore' = pruneFeedDuplicatesForThread(r.next, rootKey, h)
              /\ regOp' = [ kind |-> "upsert", url |-> h, rootKey |-> rootKey,
                            before |-> lsStore,
                            after |-> r.next, changed |-> r.changed,
                            added |-> r.added, updated |-> r.updated,
                            notified |-> r.changed ]
    /\ UNCHANGED <<lsKey, notReg>>

RegNext == RegisterExplorer \/ RegisterFeed

(***************************************************************************)
(* ChainGraph: CHAIN is a Map, kept here as the sequence of its nodes in   *)
(* insertion order.  JavaScript runs a synchronous block to completion     *)
(* and then drains the microtask queue, so run() executes only when no     *)
(* block is executing.                                                     *)
(***************************************************************************)
CHAIN_MAX_NODES == 4096

\* Bound on CHAIN_TICK in the explored runs.
MaxTick == 2

ChainKeys == {"k:a", "k:b"}

NoKey == "null"

ChainNodes ==
    UNION { { [key |-> k, prevKey |-> pk, payloadRef |-> pr, fallbackRef |-> "u:" \o k] :
                pk \in ChainKeys \cup {NoKey}, pr \in {NoKey, "j:" \o k} } :
            k \in ChainKeys }

\* CHAIN.get(key): index of the node, 0 when absent.
ChainIndex(ch, key) ==
    IF \E i \in DOMAIN ch : ch[i].key = key
    THEN CHOOSE i \in DOMAIN ch : ch[i].key = key
    ELSE 0

\* notifyChainBatched without its CHAIN_NOTIFY_PENDING guard.
notifyChainBatched_noGuard(cg) ==
    [cg EXCEPT !.pending = TRUE, !.micro = @ + 1]

notifyChainBatched(cg) ==
    IF cg.pending THEN cg
    ELSE [cg EXCEPT !.pending = TRUE, !.micro = @ + 1]

\* An eviction that takes the newest entry.
evictNewest(cg) ==
    IF Len(cg.chain) > CHAIN_MAX_NODES
    THEN [cg EXCEPT !.chain = SubSeq(@, 1, CHAIN_MAX_NODES)]
    ELSE cg

RECURSIVE evictOldest(_)
\* while (CHAIN.size > CHAIN_MAX_NODES) { delete oldest; notifyChainBatched() }
evictOldest(cg) ==
    IF Len(cg.chain) > CHAIN_MAX_NODES
    THEN evictOldest(notifyChainBatched([cg EXCEPT !.chain = Tail(@)]))
    ELSE cg

\* cg = [chain, tick, pending, micro, changed]; changed counts the calls that
\* got past the identical-entry early return.
upsertChainNode(cg, node) ==
    LET i == ChainIndex(cg.chain, node.key) IN
    IF /\ i # 0
       /\ cg.chain[i].prevKey = node.prevKey
       /\ cg.chain[i].payloadRef = node.payloadRef
       /\ cg.chain[i].fallbackRef = node.fallbackRef
    THEN cg
    ELSE LET without == SelectSeq(cg.chain, LAMBDA n : n.key # node.key)
             stored  == [ key |-> node.key, prevKey |-> node.prevKey,
                          payloadRef |-> node.payloadRef,
                          fallbackRef |-> node.fallbackRef, tick |-> cg.tick + 1 ]
             set     == [cg EXCEPT !.chain = Append(without, stored),
                                   !.tick = @ + 1, !.changed = @ + 1]
         IN  evictOldest(notifyChainBatched(set))

NoNotification == [version |-> 0, chain |-> <<>>, who |-> {}]

ChainIdle ==
    /\ chain = <<>>
    /\ chainTick = 0
    /\ chainVersion = 0
    /\ chainPending = FALSE
    /\ chainListeners = {}
    /\ microtasks = 0
    /\ inTask = FALSE
    /\ batchChanged = 0
    /\ batchNotifs = 0
    /\ lastNotified = NoNotification

\* The graph after the cards of one long thread were upserted oldest first:
\* n nodes, each linked to the one before it.
ThreadKey(i) == "k:" \o ToString(i)

LongThreadChain(n) ==
    [i \in 1..n |-> [ key |-> ThreadKey(i),
                      prevKey |-> IF i = 1 THEN NoKey ELSE ThreadKey(i - 1),
                      payloadRef |-> NoKey,
                      fallbackRef |-> "u:" \o ThreadKey(i),
                      tick |-> i ]]

ChainFull ==
    /\ chain = LongThreadChain(CHAIN_MAX_NODES)
    /\ chainTick = CHAIN_MAX_NODES
    /\ chainVersion = 0
    /\ chainPending = FALSE
    /\ chainListeners = {}
    /\ microtasks = 0
    /\ inTask = FALSE
    /\ batchChanged = 0
    /\ batchNotifs = 0
    /\ lastNotified = NoNotification

\* The explored runs make MaxTick upserts from an empty graph and two from
\* a full one.
TickAllowed(tick) ==
    \/ tick < MaxTick
    \/ tick \in {CHAIN_MAX_NODES, CHAIN_MAX_NODES + 1}

\* A FeedCardThread card as its layout effect sees it: its own key, the keys
\* of the cards rendered above it (seen), the reference to the previous
\* capsule it found (from an #add= chain or from its payload) in payload
\* form or in URL form, and whether its payload could be encoded (rootRef).
NoPrev == [form |-> "none", target |-> NoKey]

PrevRefs == {NoPrev} \cup [form : {"j", "url"}, target : ChainKeys]

Cards == [selfKey : ChainKeys, seen : SUBSET ChainKeys, prev : PrevRefs, hasRoot : BOOLEAN]

\* threadSeenKey(candidate, prevPayload ?? undefined) of the prevUrl memo: the
\* payload is decoded for a j: ref only, a URL is keyed by its token.
memoPrevKey(ref) == IF ref.form = "j" THEN ref.target ELSE "t:" \o ref.target

\* The prevUrl memo: null when the key of the candidate is among the keys
\* seen above or is the card's own key.
prevUrlOf(card) ==
    IF card.prev.form = "none" THEN NoPrev
    ELSE IF memoPrevKey(card.prev) \in card.seen \cup {card.selfKey} THEN NoPrev
    ELSE card.prev

\* The node the layout effect upserts: prevKey is threadSeenKey(prevUrl,
\* prevPayload) with the payload decoded for both forms.
cardNode(card) ==
    [ key |-> card.selfKey,
      prevKey |-> prevUrlOf(card).target,
      payloadRef |-> IF card.hasRoot THEN "j:" \o card.selfKey ELSE NoKey,
      fallbackRef |-> "u:" \o card.selfKey ]

\* A node of the graph upserted again with a payload that has become known.
Refreshed(n) ==
    [ key |-> n.key, prevKey |-> n.prevKey,
      payloadRef |-> "j:" \o n.key, fallbackRef |-> n.fallbackRef ]

\* The nodes a card upserts in the explored runs.  Below the bound: the node
\* of any card of Cards, or one of the two oldest nodes again.  At the bound: a new
\* card that continues the newest node, or one of the two oldest nodes again.
UpsertInputs(ch) ==
    { Refreshed(ch[i]) : i \in 1..Min2(2, Len(ch)) } \cup
    IF Len(ch) < CHAIN_MAX_NODES
    THEN {cardNode(card) : card \in Cards}
    ELSE { [ key |-> k, prevKey |-> ch[Len(ch)].key,
             payloadRef |-> NoKey, fallbackRef |-> "u:" \o k ] : k \in ChainKeys }

Subscribers == {"card1", "card2"}

\* subscribeChain(cb)
SubscribeChain ==
    /\ \E cb \in Subscribers \ chainListeners : chainListeners' = chainListeners \cup {cb}
    /\ UNCHANGED <<chain, chainTick, chainVersion, chainPending, microtasks, inTask,
                   batchChanged, batchNotifs, lastNotified, notChain>>

\* the unsubscribe closure subscribeChain returned
UnsubscribeChain ==
    /\ \E cb \in chainListeners : chainListeners' = chainListeners \ {cb}
    /\ UNCHANGED <<chain, chainTick, chainVersion, chainPending, microtasks, inTask,
                   batchChanged, batchNotifs, lastNotified, notChain>>

\* A synchronous block starts: the microtask queue was drained before it.
BeginTask ==
    /\ ~inTask
    /\ microtasks = 0
    /\ TickAllowed(chainTick)
    /\ inTask' = TRUE
    /\ batchChanged' = 0
    /\ batchNotifs' = 0
    /\ UNCHANGED <<chain, chainTick, chainVersion, chainPending, chainListeners,
                   microtasks, lastNotified, notChain>>

\* One upsertChainNode call of the running block (a card's layout effect).
UpsertStep ==
    /\ inTask
    /\ TickAllowed(chainTick)
    /\ \E node \in UpsertInputs(chain) :
          LET cg == upsertChainNode([ chain |-> chain, tick |-> chainTick,
                                      pending |-> chainPending, micro |-> microtasks,
                                      changed |-> batchChanged ], node)
          IN  /\ chain' = cg.chain
              /\ chainTick' = cg.tick
              /\ chainPending' = cg.pending
              /\ microtasks' = cg.micro
              /\ batchChanged' = cg.changed
    /\ UNCHANGED <<chainVersion, chainListeners, inTask, batchNotifs, lastNotified,
                   notChain>>

\* The synchronous block returns.
EndTask ==
    /\ inTask
    /\ inTask' = FALSE
    /\ UNCHANGED <<chain, chainTick, chainVersion, chainPending, chainListeners,
                   microtasks, batchChanged, batchNotifs, lastNotified, notChain>>

\* run(): the queued microtask of notifyChainBatched.
RunNotify ==
    /\ ~inTask
    /\ microtasks > 0
    /\ microtasks' = microtasks - 1
    /\ chainPending' = FALSE
    /\ chainVersion' = chainVersion + 1
    /\ lastNotified' = [version |-> chainVersion + 1, chain |-> chain, who |-> chainListeners]
    /\ batchNotifs' = batchNotifs + 1
    /\ UNCHANGED <<chain, chainTick, chainListeners, inTask, batchChanged, notChain>>

ChainNext ==
    SubscribeChain \/ UnsubscribeChain \/ BeginTask \/ UpsertStep \/ EndTask \/ RunNotify

\* A delivery that clears CHAIN_NOTIFY_PENDING only after the listeners ran.
deliver_clearAfter(cg, node) ==
    [upsertChainNode([cg EXCEPT !.micro = @ - 1], node) EXCEPT !.pending = FALSE]

\* run() with a listener that calls upsertChainNode while it is notified:
\* the flag is cleared first, so the listener's upsert queues a new run().
deliver(cg, node) ==
    upsertChainNode([cg EXCEPT !.pending = FALSE, !.micro = @ - 1], node)

\* run() during which a subscriber upserts a node.
RunNotifyUpsert ==
    /\ ~inTask
    /\ microtasks > 0
    /\ chainListeners # {}
    /\ TickAllowed(chainTick)
    /\ \E node \in UpsertInputs(chain) :
          LET cg == deliver([ chain |-> chain, tick |-> chainTick,
                              pending |-> chainPending, micro |-> microtasks,
                              changed |-> batchChanged ], node)
          IN  /\ chain' = cg.chain
              /\ chainTick' = cg.tick
              /\ chainPending' = cg.pending
              /\ microtasks' = cg.micro
              /\ batchChanged' = cg.changed
    /\ chainVersion' = chainVersion + 1
    /\ lastNotified' = [version |-> chainVersion + 1, chain |-> chain, who |-> chainListeners]
    /\ batchNotifs' = batchNotifs + 1
    /\ UNCHANGED <<chainListeners, inTask, notChain>>

ChainLiveNext == ChainNext \/ RunNotifyUpsert

(***************************************************************************)
(* Thread-root walk: threadRootRefFromUrlLike, one loop iteration per      *)
(* step.  The capsules behind the input form a line of refs 1 -> 2 -> ...  *)
(* -> n by their previous-pointers; the last capsule points nowhere or     *)
(* back into the line; one ref may be undecodable; the last capsule may    *)
(* carry the content key of the first.  Ref 0 is "no ref", payload 0 null. *)
(***************************************************************************)
STEP_BOUND == 48

WalkLens == {1, 2, 3, STEP_BOUND - 1, STEP_BOUND, STEP_BOUND + 2}

Worlds ==
    UNION { { [n |-> n, loopTo |-> l, dead |-> d, alias |-> a] :
                l \in {0, 1, n}, d \in {0, n}, a \in BOOLEAN } : n \in WalkLens }

WalkInputs ==
    [kind : {"empty", "chain", "plain"}, world : Worlds, startPayload : BOOLEAN]

\* loadPayloadFromRef: the payload behind a ref, 0 (null) when it cannot be decoded.
loadPayloadFromRef(w, ref) == IF ref = w.dead THEN 0 ELSE ref

\* extractPrevRefFromPayload: the previous-pointer of a payload, 0 when none.
extractPrevRefFromPayload(w, payload) ==
    IF payload < w.n THEN payload + 1 ELSE w.loopTo

\* payloadKey of the capsule behind a payload.
walkPayloadKey(w, payload) ==
    IF w.alias /\ payload = w.n THEN 1 ELSE payload

\* threadSeenKey(curRef, payload): k:<payloadKey> with a payload, else a key
\* made of the ref itself.
walkSeenKey(w, ref, payload) ==
    IF payload # 0 THEN <<"k", walkPayloadKey(w, payload)>> ELSE <<"u", ref>>

\* The loop without its step bound.
NoStepBound(i) == TRUE

WithinStepBound(i) == i < STEP_BOUND

NoWalkInput == [kind |-> "empty", world |-> [n |-> 1, loopTo |-> 0, dead |-> 0, alias |-> FALSE],
                startPayload |-> FALSE]

NoWalkOut == [ref |-> 0, stop |-> "none"]

WalkIdle ==
    /\ wIn = NoWalkInput
    /\ wCur = 0
    /\ wPayload = 0
    /\ wSeen = {}
    /\ wI = 0
    /\ wPc = "idle"
    /\ wOut = NoWalkOut

\* Lines 1568-1579: the call up to the loop.
WalkStart ==
    /\ wPc = "idle"
    /\ \E in \in WalkInputs :
          /\ wIn' = in
          /\ wSeen' = {}
          /\ wI' = 0
          /\ IF in.kind = "empty"
             THEN /\ wPc' = "done"
                  /\ wOut' = [ref |-> 0, stop |-> "empty"]
                  /\ wCur' = 0
                  /\ wPayload' = 0
             ELSE IF in.kind = "chain"
             THEN /\ wPc' = "done"
                  /\ wOut' = [ref |-> in.world.n, stop |-> "chain"]
                  /\ wCur' = 0
                  /\ wPayload' = 0
             ELSE /\ wPc' = "loop"
                  /\ wOut' = NoWalkOut
                  /\ wCur' = 1
                  /\ wPayload' = IF in.startPayload THEN 1
                                 ELSE loadPayloadFromRef(in.world, 1)
    /\ UNCHANGED notWalk

\* Lines 1582-1594: the loop test and one pass through the body.
WalkStep ==
    /\ wPc = "loop"
    /\ LET w == wIn.world
           k == walkSeenKey(w, wCur, wPayload)
           prev == IF wPayload # 0 THEN extractPrevRefFromPayload(w, wPayload) ELSE 0
       IN  IF ~WithinStepBound(wI)
           THEN /\ wPc' = "done"
                /\ wOut' = [ref |-> wCur, stop |-> "bound"]
                /\ UNCHANGED <<wCur, wPayload, wSeen, wI>>
           ELSE IF k \in wSeen
           THEN /\ wPc' = "done"
                /\ wOut' = [ref |-> wCur, stop |-> "seen"]
                /\ UNCHANGED <<wCur, wPayload, wSeen, wI>>
           ELSE IF prev = 0
           THEN /\ wPc' = "done"
                /\ wOut' = [ref |-> wCur, stop |-> "noPrev"]
                /\ wSeen' = wSeen \cup {k}
                /\ UNCHANGED <<wCur, wPayload, wI>>
           ELSE /\ wCur' = prev
                /\ wPayload' = loadPayloadFromRef(w, prev)
                /\ wSeen' = wSeen \cup {k}
                /\ wI' = wI + 1
                /\ UNCHANGED <<wPc, wOut>>
    /\ UNCHANGED <<wIn, notWalk>>

\* The caller takes the result.
WalkReturn ==
    /\ wPc = "done"
    /\ wIn' = NoWalkInput
    /\ wCur' = 0
    /\ wPayload' = 0
    /\ wSeen' = {}
    /\ wI' = 0
    /\ wPc' = "idle"
    /\ wOut' = NoWalkOut
    /\ UNCHANGED notWalk

WalkNext == WalkStart \/ WalkStep \/ WalkReturn

(***************************************************************************)
(* Content keys.  A capsule reaches the key functions in one of three      *)
(* transport forms: "j" (a payload ref j:<base64url>), "token" (a stream   *)
(* token URL .../stream/p/<token>) and "url" (a normalized sigil URL       *)
(* /s/<hash>?p=<token>).  Tokens and fingerprints are kept as tagged       *)
(* tuples of what they encode: equal exactly when the encoded text is.     *)
(***************************************************************************)
HexIds == {"", "ab12", "AB12"}

Pulses == {0, 5, 7}

Signatures == {"", "sig"}

Capsules == [id : HexIds, pulse : Pulses, kaiSignature : Signatures]

Forms == {"j", "token", "url"}

NoPayload == [id |-> "", pulse |-> 0, kaiSignature |-> "", rest |-> <<"undefined">>]

\* String.prototype.toLowerCase on the ids in use.
ToLowerCase(id) == IF id = "AB12" THEN "ab12" ELSE id

\* The token of a capsule: base64 of its JSON.
TokenOf(c) == <<"tok", c>>

\* decodeSigilUrl(url).data: a wrapper around the capsule that carries the
\* decoded URL and the short fields, but not the capsule's id or signature.
DecodedData(c, url) ==
    [id |-> "", pulse |-> c.pulse, kaiSignature |-> "", rest |-> <<"data", url, c>>]

\* The URL through which decodeSigilUrlSmart decodes a ref of the given form.
DecodedVia(form) == IF form = "url" THEN "/s?p=" ELSE "/stream/p?p="

\* A ref: its form and the capsule behind it.  A j: ref encodes the payload
\* the card stored (rootRef, line 2174): the decoded data of the card's URL.
RefOf(c, form) == [form |-> form, capsule |-> c]

\* decodePayloadRef on a j: ref.
decodeRefPayload(ref) == DecodedData(ref.capsule, DecodedVia("token"))

\* decodeSigilUrlSmart(ref).decoded.data on a URL ref.
decodeUrlPayload(ref) == DecodedData(ref.capsule, DecodedVia(ref.form))

payloadKeyOf(payload) ==
    IF payload.id # "" THEN <<"cid", ToLowerCase(payload.id)>>
    ELSE IF payload.pulse > 0 THEN <<"p", payload.pulse>>
    ELSE IF payload.kaiSignature # "" THEN <<"ks", payload.kaiSignature>>
    ELSE <<"h", payload>>

\* threadSeenKey(rawRef, payloadMaybe); URL refs of the forms here always
\* carry a token, so the u: branch (line 1087) is not reached by them.
threadSeenKey(ref, payloadMaybe) ==
    IF payloadMaybe # NoPayload THEN <<"k", payloadKeyOf(payloadMaybe)>>
    ELSE IF ref.form = "j" THEN <<"k", payloadKeyOf(decodeRefPayload(ref))>>
    ELSE <<"t", TokenOf(ref.capsule)>>

\* selfKey (lines 2153-2156): the card's URL with its decoded payload.
selfKeyOf(ref) ==
    threadSeenKey(ref, IF ref.form = "j" THEN decodeRefPayload(ref) ELSE decodeUrlPayload(ref))

\* originKeyFromUrlLike on a ref without add chain: the payload is decoded
\* only for j: refs.
originKeyFromUrlLike(ref) ==
    threadSeenKey(ref, IF ref.form = "j" THEN decodeRefPayload(ref) ELSE NoPayload)

\* keyForRegistryUrl: token first; a j: ref reaches the registry as the
\* root= of a memory-stream URL.
keyForRegistryKey(ref) ==
    IF ref.form # "j" THEN <<"t", TokenOf(ref.capsule)>>
    ELSE <<"r", payloadKeyOf(decodeRefPayload(ref))>>

KeysOf(ref) ==
    [ self |-> selfKeyOf(ref),
      seen |-> threadSeenKey(ref, NoPayload),
      origin |-> originKeyFromUrlLike(ref),
      registry |-> keyForRegistryKey(ref) ]

NoKeyInput == [capsule |-> [id |-> "", pulse |-> 0, kaiSignature |-> ""], a |-> "j", b |-> "j"]

NoKeys == [a |-> KeysOf(RefOf(NoKeyInput.capsule, "j")), b |-> KeysOf(RefOf(NoKeyInput.capsule, "j"))]

KeyIdle ==
    /\ kIn = NoKeyInput
    /\ kKeys = NoKeys
    /\ kPc = "idle"

\* A capsule is referenced in two forms.
KeyChoose ==
    /\ kPc = "idle"
    /\ \E c \in Capsules, a \in Forms, b \in Forms :
          kIn' = [capsule |-> c, a |-> a, b |-> b]
    /\ kKeys' = NoKeys
    /\ kPc' = "input"
    /\ UNCHANGED notKeys

\* The keys of both refs are derived at every place that derives one.
KeyDerive ==
    /\ kPc = "input"
    /\ kKeys' = [a |-> KeysOf(RefOf(kIn.capsule, kIn.a)), b |-> KeysOf(RefOf(kIn.capsule, kIn.b))]
    /\ kPc' = "derived"
    /\ UNCHANGED <<kIn, notKeys>>

KeyDiscard ==
    /\ kPc = "derived"
    /\ kIn' = NoKeyInput
    /\ kKeys' = NoKeys
    /\ kPc' = "idle"
    /\ UNCHANGED notKeys

KeyNext == KeyChoose \/ KeyDerive \/ KeyDiscard

(***************************************************************************)
(* CanonicalCodec.  A JSON value is a record [t, n, s, keys, kids]: t is   *)
(* the type, n the number (or 1/0 for true/false), s the string as its     *)
(* UTF-16 code units, keys and kids the keys (in Object.keys order) and    *)
(* member values of an object, kids alone the elements of an array.  Texts *)
(* and byte strings are sequences of numbers.  Numbers are integers;       *)
(* "nonfinite" stands for NaN and the infinities.  Keys are not            *)
(* integer-like, so Object.keys order is insertion order.                  *)
(***************************************************************************)
JNull == [t |-> "null", n |-> 0, s |-> <<>>, keys |-> <<>>, kids |-> <<>>]

JNonFinite == [t |-> "nonfinite", n |-> 0, s |-> <<>>, keys |-> <<>>, kids |-> <<>>]

JBool(b) == [t |-> "bool", n |-> IF b THEN 1 ELSE 0, s |-> <<>>, keys |-> <<>>, kids |-> <<>>]

JNum(n) == [t |-> "num", n |-> n, s |-> <<>>, keys |-> <<>>, kids |-> <<>>]

JStr(s) == [t |-> "str", n |-> 0, s |-> s, keys |-> <<>>, kids |-> <<>>]

JArr(kids) == [t |-> "arr", n |-> 0, s |-> <<>>, keys |-> <<>>, kids |-> kids]

JObj(keys, kids) == [t |-> "obj", n |-> 0, s |-> <<>>, keys |-> keys, kids |-> kids]

RECURSIVE Concat(_)
\* The concatenation of a sequence of sequences.
Concat(ss) == IF ss = <<>> THEN <<>> ELSE Head(ss) \o Concat(Tail(ss))

RECURSIVE toNFD(_)
\* Canonical decomposition of a string over the letters in use: U+00E9 is
\* e followed by U+0301.
toNFD(s) ==
    IF s = <<>> THEN <<>>
    ELSE (IF Head(s) = 233 THEN <<101, 769>> ELSE <<Head(s)>>) \o toNFD(Tail(s))

RECURSIVE lexCompare(_, _)
lexCompare(a, b) ==
    IF a = <<>> THEN (IF b = <<>> THEN 0 ELSE -1)
    ELSE IF b = <<>> THEN 1
    ELSE IF Head(a) < Head(b) THEN -1
    ELSE IF Head(a) > Head(b) THEN 1
    ELSE lexCompare(Tail(a), Tail(b))

\* a.localeCompare(b): collation compares canonically equivalent strings as
\* equal; over lower-case letters and the acute accent the collation order
\* is the code point order of the decomposed strings.
localeCompare(a, b) == lexCompare(toNFD(a), toNFD(b))

keyCompare(a, b) == localeCompare(a, b)

RECURSIVE insertStable(_, _, _)
\* Position-preserving insertion of index i into the sorted index list:
\* after every index whose key does not compare greater.
insertStable(keys, sorted, i) ==
    IF sorted = <<>> THEN <<i>>
    ELSE IF keyCompare(keys[Head(sorted)], keys[i]) > 0
    THEN <<i>> \o sorted
    ELSE <<Head(sorted)>> \o insertStable(keys, Tail(sorted), i)

RECURSIVE sortedIndices(_, _)
\* Object.keys(rec).sort(cmp): Array.prototype.sort is stable.
sortedIndices(keys, upto) ==
    IF upto = 0 THEN <<>>
    ELSE insertStable(keys, sortedIndices(keys, upto - 1), upto)

RECURSIVE deepSortForJson(_)
deepSortForJson(v) ==
    IF v.t = "nonfinite" THEN JNull
    ELSE IF v.t = "arr"
    THEN JArr([i \in DOMAIN v.kids |-> deepSortForJson(v.kids[i])])
    ELSE IF v.t = "obj"
    THEN LET idx == sortedIndices(v.keys, Len(v.keys))
         IN  JObj([i \in DOMAIN idx |-> v.keys[idx[i]]],
                  [i \in DOMAIN idx |-> deepSortForJson(v.kids[idx[i]])])
    ELSE v

RECURSIVE natText(_)
natText(n) == IF n < 10 THEN <<48 + n>> ELSE natText(n \div 10) \o <<48 + (n % 10)>>

numText(n) == IF n < 0 THEN <<45>> \o natText(0 - n) ELSE natText(n)

RECURSIVE quoteChars(_)
\* JSON.stringify's escaping of a string over printable characters.
quoteChars(s) ==
    IF s = <<>> THEN <<>>
    ELSE (IF Head(s) = 34 THEN <<92, 34>>
          ELSE IF Head(s) = 92 THEN <<92, 92>>
          ELSE <<Head(s)>>) \o quoteChars(Tail(s))

quoteText(s) == <<34>> \o quoteChars(s) \o <<34>>

RECURSIVE joinComma(_)
joinComma(parts) ==
    IF parts = <<>> THEN <<>>
    ELSE IF Len(parts) = 1 THEN parts[1]
    ELSE parts[1] \o <<44>> \o joinComma(Tail(parts))

RECURSIVE jsonStringify(_)
jsonStringify(v) ==
    IF v.t = "null" \/ v.t = "nonfinite" THEN <<110, 117, 108, 108>>
    ELSE IF v.t = "bool"
    THEN (IF v.n = 1 THEN <<116, 114, 117, 101>> ELSE <<102, 97, 108, 115, 101>>)
    ELSE IF v.t = "num" THEN numText(v.n)
    ELSE IF v.t = "str" THEN quoteText(v.s)
    ELSE IF v.t = "arr"
    THEN <<91>> \o joinComma([i \in DOMAIN v.kids |-> jsonStringify(v.kids[i])]) \o <<93>>
    ELSE <<123>> \o joinComma([i \in DOMAIN v.kids |->
                       quoteText(v.keys[i]) \o <<58>> \o jsonStringify(v.kids[i])]) \o <<125>>

\* TextEncoder.encode of one code unit (no surrogates in use).
utf8OfUnit(c) ==
    IF c < 128 THEN <<c>>
    ELSE IF c < 2048 THEN <<192 + (c \div 64), 128 + (c % 64)>>
    ELSE <<224 + (c \div 4096), 128 + ((c \div 64) % 64), 128 + (c % 64)>>

RECURSIVE utf8Encode(_)
utf8Encode(s) == IF s = <<>> THEN <<>> ELSE utf8OfUnit(Head(s)) \o utf8Encode(Tail(s))

\* The base64 alphabet: A-Z a-z 0-9 + /
b64Char(i) ==
    IF i < 26 THEN 65 + i
    ELSE IF i < 52 THEN 97 + (i - 26)
    ELSE IF i < 62 THEN 48 + (i - 52)
    ELSE IF i = 62 THEN 43 ELSE 47

RECURSIVE btoa(_)
\* btoa on a byte string, "=" (61) padded.
btoa(bytes) ==
    IF bytes = <<>> THEN <<>>
    ELSE IF Len(bytes) = 1
    THEN <<b64Char(bytes[1] \div 4), b64Char((bytes[1] % 4) * 16), 61, 61>>
    ELSE IF Len(bytes) = 2
    THEN <<b64Char(bytes[1] \div 4),
           b64Char((bytes[1] % 4) * 16 + (bytes[2] \div 16)),
           b64Char((bytes[2] % 16) * 4), 61>>
    ELSE <<b64Char(bytes[1] \div 4),
           b64Char((bytes[1] % 4) * 16 + (bytes[2] \div 16)),
           b64Char((bytes[2] % 16) * 4 + (bytes[3] \div 64)),
           b64Char(bytes[3] % 64)>> \o btoa(SubSeq(bytes, 4, Len(bytes)))

RECURSIVE stripPad(_)
\* .replace(/=+$/g, "")
stripPad(s) == IF s # <<>> /\ s[Len(s)] = 61 THEN stripPad(SubSeq(s, 1, Len(s) - 1)) ELSE s

\* toBase64UrlFromUtf8 without the replacement of "+" and "/".
toBase64UrlFromUtf8_plain(s) == stripPad(btoa(utf8Encode(s)))

toBase64UrlFromUtf8(s) ==
    LET b64 == btoa(utf8Encode(s))
        url == [i \in DOMAIN b64 |-> IF b64[i] = 43 THEN 45
                                     ELSE IF b64[i] = 47 THEN 95 ELSE b64[i]]
    IN  stripPad(url)

\* PAYLOAD_PREFIX "j:"
PAYLOAD_PREFIX == <<106, 58>>

encodePayloadRef(payload) ==
    PAYLOAD_PREFIX \o toBase64UrlFromUtf8(jsonStringify(deepSortForJson(payload)))

\* Index of a base64 character in the alphabet, -1 for any other character.
b64Index(c) ==
    IF c >= 65 /\ c <= 90 THEN c - 65
    ELSE IF c >= 97 /\ c <= 122 THEN c - 97 + 26
    ELSE IF c >= 48 /\ c <= 57 THEN c - 48 + 52
    ELSE IF c = 43 THEN 62
    ELSE IF c = 47 THEN 63 ELSE -1

RECURSIVE atobBytes(_)
\* atob on unpadded base64 whose length is not 1 modulo 4.
atobBytes(s) ==
    IF Len(s) < 2 THEN <<>>
    ELSE LET a == b64Index(s[1])
             b == b64Index(s[2])
         IN  IF Len(s) = 2 THEN <<a * 4 + (b \div 16)>>
             ELSE LET c == b64Index(s[3])
                  IN  IF Len(s) = 3
                      THEN <<a * 4 + (b \div 16), (b % 16) * 16 + (c \div 4)>>
                      ELSE <<a * 4 + (b \div 16), (b % 16) * 16 + (c \div 4),
                             (c % 4) * 64 + b64Index(s[4])>> \o atobBytes(SubSeq(s, 5, Len(s)))

RECURSIVE utf8Decode(_)
\* TextDecoder.decode: well-formed sequences of up to three bytes; any other
\* byte becomes U+FFFD.
utf8Decode(b) ==
    IF b = <<>> THEN <<>>
    ELSE IF b[1] < 128 THEN <<b[1]>> \o utf8Decode(Tail(b))
    ELSE IF b[1] >= 194 /\ b[1] < 224 /\ Len(b) >= 2 /\ b[2] \div 64 = 2
    THEN <<(b[1] - 192) * 64 + (b[2] - 128)>> \o utf8Decode(SubSeq(b, 3, Len(b)))
    ELSE IF b[1] >= 224 /\ b[1] < 240 /\ Len(b) >= 3 /\ b[2] \div 64 = 2 /\ b[3] \div 64 = 2
            /\ (b[1] - 224) * 4096 + (b[2] - 128) * 64 + (b[3] - 128) >= 2048
    THEN <<(b[1] - 224) * 4096 + (b[2] - 128) * 64 + (b[3] - 128)>>
         \o utf8Decode(SubSeq(b, 4, Len(b)))
    ELSE <<65533>> \o utf8Decode(Tail(b))

\* fromBase64UrlToUtf8; ok is FALSE where atob throws (the padding "===").
fromBase64UrlToUtf8(b64url) ==
    LET b64 == [i \in DOMAIN b64url |-> IF b64url[i] = 45 THEN 43
                                        ELSE IF b64url[i] = 95 THEN 47 ELSE b64url[i]]
    IN  IF (Len(b64url) + 3) % 4 = 0
        THEN [ok |-> FALSE, text |-> <<>>]
        ELSE [ok |-> TRUE, text |-> utf8Decode(atobBytes(b64))]

ParseFail == [ok |-> FALSE, val |-> JNull, next |-> 0]

IsDigit(c) == c >= 48 /\ c <= 57

HexVal(c) ==
    IF c >= 48 /\ c <= 57 THEN c - 48
    ELSE IF c >= 97 /\ c <= 102 THEN c - 87
    ELSE IF c >= 65 /\ c <= 70 THEN c - 55 ELSE -1

\* Does text t continue with the word w at position i?
HasWord(t, i, w) == i + Len(w) - 1 <= Len(t) /\ SubSeq(t, i, i + Len(w) - 1) = w

\* The character an escape letter stands for, -1 when it is no escape.
EscapeOf(c) ==
    IF c = 34 \/ c = 92 \/ c = 47 THEN c
    ELSE IF c = 98 THEN 8
    ELSE IF c = 102 THEN 12
    ELSE IF c = 110 THEN 10
    ELSE IF c = 114 THEN 13
    ELSE IF c = 116 THEN 9 ELSE -1

RECURSIVE parseStringBody(_, _, _)
\* The characters of a JSON string from position i (after the opening
\* quote) up to the closing quote; val is the string as a JStr.
parseStringBody(t, i, acc) ==
    IF i > Len(t) THEN ParseFail
    ELSE IF t[i] = 34 THEN [ok |-> TRUE, val |-> JStr(acc), next |-> i + 1]
    ELSE IF t[i] < 32 THEN ParseFail
    ELSE IF t[i] # 92 THEN parseStringBody(t, i + 1, Append(acc, t[i]))
    ELSE IF i + 1 > Len(t) THEN ParseFail
    ELSE IF t[i + 1] = 117
    THEN IF i + 5 <= Len(t) /\ \A j \in (i + 2)..(i + 5) : HexVal(t[j]) >= 0
         THEN parseStringBody(t, i + 6,
                  Append(acc, HexVal(t[i + 2]) * 4096 + HexVal(t[i + 3]) * 256
                              + HexVal(t[i + 4]) * 16 + HexVal(t[i + 5])))
         ELSE ParseFail
    ELSE IF EscapeOf(t[i + 1]) >= 0
    THEN parseStringBody(t, i + 2, Append(acc, EscapeOf(t[i + 1])))
    ELSE ParseFail

RECURSIVE parseDigits(_, _, _)
parseDigits(t, i, acc) ==
    IF i <= Len(t) /\ IsDigit(t[i]) THEN parseDigits(t, i + 1, acc * 10 + (t[i] - 48))
    ELSE [ok |-> TRUE, val |-> JNum(acc), next |-> i]

\* A JSON integer at position i: an optional minus, then 0 or a digit string
\* without leading zero.
parseNumber(t, i) ==
    LET neg == t[i] = 45
        j   == IF neg THEN i + 1 ELSE i
    IN  IF j > Len(t) \/ ~IsDigit(t[j]) THEN ParseFail
        ELSE LET r == IF t[j] = 48 THEN [ok |-> TRUE, val |-> JNum(0), next |-> j + 1]
                      ELSE parseDigits(t, j, 0)
             IN  IF neg THEN [r EXCEPT !.val = JNum(0 - r.val.n)] ELSE r

\* Object member assignment: a repeated key keeps its place and takes the
\* new value.
setMember(obj, key, val) ==
    IF \E i \in DOMAIN obj.keys : obj.keys[i] = key
    THEN LET i == CHOOSE i \in DOMAIN obj.keys : obj.keys[i] = key
         IN  JObj(obj.keys, [obj.kids EXCEPT ![i] = val])
    ELSE JObj(Append(obj.keys, key), Append(obj.kids, val))

RECURSIVE parseValue(_, _)
RECURSIVE parseElements(_, _, _)
RECURSIVE parseMembers(_, _, _)

\* The elements of an array from position i (at an element) to the "]".
parseElements(t, i, acc) ==
    LET r == parseValue(t, i) IN
    IF ~r.ok \/ r.next > Len(t) THEN ParseFail
    ELSE IF t[r.next] = 44 THEN parseElements(t, r.next + 1, Append(acc, r.val))
    ELSE IF t[r.next] = 93
    THEN [ok |-> TRUE, val |-> JArr(Append(acc, r.val)), next |-> r.next + 1]
    ELSE ParseFail

\* The members of an object from position i (at a key) to the "}".
parseMembers(t, i, obj) ==
    IF i > Len(t) \/ t[i] # 34 THEN ParseFail
    ELSE LET k == parseStringBody(t, i + 1, <<>>) IN
         IF ~k.ok \/ k.next > Len(t) \/ t[k.next] # 58 THEN ParseFail
         ELSE LET r == parseValue(t, k.next + 1) IN
              IF ~r.ok \/ r.next > Len(t) THEN ParseFail
              ELSE IF t[r.next] = 44
              THEN parseMembers(t, r.next + 1, setMember(obj, k.val.s, r.val))
              ELSE IF t[r.next] = 125
              THEN [ok |-> TRUE, val |-> setMember(obj, k.val.s, r.val), next |-> r.next + 1]
              ELSE ParseFail

parseValue(t, i) ==
    IF i > Len(t) THEN ParseFail
    ELSE IF HasWord(t, i, <<110, 117, 108, 108>>)
    THEN [ok |-> TRUE, val |-> JNull, next |-> i + 4]
    ELSE IF HasWord(t, i, <<116, 114, 117, 101>>)
    THEN [ok |-> TRUE, val |-> JBool(TRUE), next |-> i + 4]
    ELSE IF HasWord(t, i, <<102, 97, 108, 115, 101>>)
    THEN [ok |-> TRUE, val |-> JBool(FALSE), next |-> i + 5]
    ELSE IF t[i] = 34 THEN parseStringBody(t, i + 1, <<>>)
    ELSE IF t[i] = 45 \/ IsDigit(t[i]) THEN parseNumber(t, i)
    ELSE IF t[i] = 91
    THEN IF i + 1 <= Len(t) /\ t[i + 1] = 93
         THEN [ok |-> TRUE, val |-> JArr(<<>>), next |-> i + 2]
         ELSE parseElements(t, i + 1, <<>>)
    ELSE IF t[i] = 123
    THEN IF i + 1 <= Len(t) /\ t[i + 1] = 125
         THEN [ok |-> TRUE, val |-> JObj(<<>>, <<>>), next |-> i + 2]
         ELSE parseMembers(t, i + 1, JObj(<<>>, <<>>))
    ELSE ParseFail

\* JSON.parse on a text without white space and with integer numbers; ok is
\* FALSE where it throws.
jsonParse(t) ==
    LET r == parseValue(t, 1) IN
    IF r.ok /\ r.next = Len(t) + 1 THEN [ok |-> TRUE, val |-> r.val]
    ELSE [ok |-> FALSE, val |-> JNull]

\* The shortest token decodePayloadRef accepts.
MIN_TOKEN_LEN == 16

\* [A-Za-z0-9_-]
IsTokenChar(c) ==
    \/ IsDigit(c)
    \/ c >= 65 /\ c <= 90
    \/ c >= 97 /\ c <= 122
    \/ c = 45
    \/ c = 95

\* /^[A-Za-z0-9_-]{16,}$/
IsTokenText(v) ==
    /\ Len(v) >= MIN_TOKEN_LEN
    /\ \A i \in DOMAIN v : IsTokenChar(v[i])

\* String.prototype.trim on the white space in use.
IsSpace(c) == c = 32 \/ c = 9 \/ c = 10 \/ c = 13

RECURSIVE trimStart(_)
trimStart(s) == IF s # <<>> /\ IsSpace(Head(s)) THEN trimStart(Tail(s)) ELSE s

RECURSIVE trimEnd(_)
trimEnd(s) == IF s # <<>> /\ IsSpace(s[Len(s)]) THEN trimEnd(SubSeq(s, 1, Len(s) - 1)) ELSE s

RECURSIVE stripTrailingPunct(_)
\* .replace(/[)\].,;:!?]+$/g, "")
stripTrailingPunct(s) ==
    IF s # <<>> /\ s[Len(s)] \in {41, 93, 46, 44, 59, 58, 33, 63}
    THEN stripTrailingPunct(SubSeq(s, 1, Len(s) - 1)) ELSE s

RECURSIVE stripLeadingPunct(_)
\* .replace(/^[([{"'`]+/g, "")
stripLeadingPunct(s) ==
    IF s # <<>> /\ Head(s) \in {40, 91, 123, 34, 39, 96}
    THEN stripLeadingPunct(Tail(s)) ELSE s

stripEdgePunct(s) ==
    trimEnd(trimStart(stripLeadingPunct(stripTrailingPunct(trimEnd(trimStart(s))))))

\* atob on any string: white space is ignored, up to two trailing "=" are
\* dropped from a text whose length is a multiple of four, and a remaining
\* length of 1 modulo 4 or a character outside the alphabet throws (ok FALSE).
atob(s) ==
    LET t == SelectSeq(s, LAMBDA c : ~IsSpace(c) /\ c # 12)
        u == IF Len(t) % 4 = 0 /\ Len(t) >= 1 /\ t[Len(t)] = 61
             THEN IF Len(t) >= 2 /\ t[Len(t) - 1] = 61
                  THEN SubSeq(t, 1, Len(t) - 2) ELSE SubSeq(t, 1, Len(t) - 1)
             ELSE t
    IN  IF Len(u) % 4 = 1 \/ \E i \in DOMAIN u : b64Index(u[i]) < 0
        THEN [ok |-> FALSE, bytes |-> <<>>]
        ELSE [ok |-> TRUE, bytes |-> atobBytes(u)]

\* The try block of decodePayloadRef: fromBase64UrlToUtf8, then JSON.parse;
\* ok is FALSE where either throws.
decodeTokenBody(v) ==
    LET json == fromBase64UrlToUtf8(v) IN
    IF ~json.ok THEN [ok |-> FALSE, val |-> JNull] ELSE jsonParse(json.text)

\* decodePayloadRef without its try/catch: an exception leaves the function.
refCatch_none(r) == [escaped |-> ~r.ok, val |-> r.val]

\* catch (e) { return null }
refCatch(r) == [escaped |-> FALSE, val |-> IF r.ok THEN r.val ELSE JNull]

\* decodePayloadRef as its caller sees it: the returned value (JNull for
\* null), or an exception that escaped.
decodePayloadRefCall(refRaw) ==
    LET t == stripEdgePunct(refRaw)
        v == IF HasWord(t, 1, PAYLOAD_PREFIX) THEN SubSeq(t, 3, Len(t)) ELSE t
    IN  IF ~IsTokenText(v) THEN [escaped |-> FALSE, val |-> JNull]
        ELSE refCatch(decodeTokenBody(v))

\* decodePayloadRef: the decoded value, null (JNull) on every failure.
decodePayloadRef(ref) == decodePayloadRefCall(ref).val

RECURSIVE deepEquals(_, _)
\* Deep equality of two JSON values: objects by their members, whatever the
\* order of the keys.
deepEquals(a, b) ==
    /\ a.t = b.t
    /\ a.n = b.n
    /\ a.s = b.s
    /\ Len(a.kids) = Len(b.kids)
    /\ IF a.t = "arr"
       THEN \A i \in DOMAIN a.kids : deepEquals(a.kids[i], b.kids[i])
       ELSE IF a.t = "obj"
       THEN \A i \in DOMAIN a.keys :
               \E j \in DOMAIN b.keys :
                   b.keys[j] = a.keys[i] /\ deepEquals(a.kids[i], b.kids[j])
       ELSE TRUE

RECURSIVE xorBits(_, _, _)
\* Bitwise exclusive or of the low k bits of a and b.
xorBits(a, b, k) ==
    IF k = 0 THEN 0
    ELSE ((a + b) % 2) + 2 * xorBits(a \div 2, b \div 2, k - 1)

\* 0xcbf29ce484222325 as bytes, least significant first.
FNV_OFFSET == <<37, 35, 34, 132, 228, 156, 242, 203>>

RECURSIVE carryBytes(_, _, _)
\* The bytes of a number given as columns of byte products, modulo 2^64.
carryBytes(cols, k, carry) ==
    IF k > 8 THEN <<>>
    ELSE <<(cols[k] + carry) % 256>> \o carryBytes(cols, k + 1, (cols[k] + carry) \div 256)

\* (h * 0x100000001b3) & 0xffffffffffffffff: the prime has the bytes 0xb3, 1
\* and 1 at positions 0, 1 and 5.
mulPrime64(h) ==
    carryBytes([k \in 1..8 |-> h[k] * 179
                               + (IF k >= 2 THEN h[k - 1] ELSE 0)
                               + (IF k >= 6 THEN h[k - 5] ELSE 0)], 1, 0)

\* One round: h ^= c, then h = (h * prime) & mask.
fnvRound(h, c) ==
    mulPrime64([h EXCEPT ![1] = xorBits(h[1], c % 256, 8),
                         ![2] = xorBits(h[2], c \div 256, 8)])

RECURSIVE fnvFold(_, _)
\* The rounds over the code units of s, each round's eight bytes computed
\* before the next round starts.
fnvFold(h, s) ==
    IF s = <<>> THEN h
    ELSE LET h2 == fnvRound(h, Head(s))
         IN  IF Len(h2) = 8 THEN fnvFold(h2, Tail(s)) ELSE h2

HexDigit(d) == IF d < 10 THEN 48 + d ELSE 87 + d

\* fnv1a64Hex: sixteen lower-case hex digits.
fnv1a64Hex(s) ==
    LET h == fnvFold(FNV_OFFSET, s)
    IN  Concat([i \in 1..8 |-> <<HexDigit(h[9 - i] \div 16), HexDigit(h[9 - i] % 16)>>])

\* The member of an object (or array) under a key; JNonFinite stands in for
\* undefined, which no test below accepts.
memberOf(v, key) ==
    IF \E i \in DOMAIN v.keys : v.keys[i] = key
    THEN v.kids[CHOOSE i \in DOMAIN v.keys : v.keys[i] = key]
    ELSE JNonFinite

\* /^[0-9a-fA-F]{64}$/ on a string without surrounding white space.
Is64Hex(v) == v.t = "str" /\ Len(v.s) = 64 /\ \A i \in DOMAIN v.s : HexVal(v.s[i]) >= 0

lowerHex(s) == [i \in DOMAIN s |-> IF s[i] >= 65 /\ s[i] <= 70 THEN s[i] + 32 ELSE s[i]]

payloadKey(payload) ==
    LET id == memberOf(payload, <<105, 100>>)
        contentId == memberOf(payload, <<99, 111, 110, 116, 101, 110, 116, 73, 100>>)
        cid == memberOf(payload, <<99, 105, 100>>)
        p == memberOf(payload, <<112, 117, 108, 115, 101>>)
        ks == memberOf(payload, <<107, 97, 105, 83, 105, 103, 110, 97, 116, 117, 114, 101>>)
        isObject == payload.t = "obj" \/ payload.t = "arr"
    IN  IF isObject /\ Is64Hex(id) THEN <<99, 105, 100, 58>> \o lowerHex(id.s)
        ELSE IF isObject /\ Is64Hex(contentId) THEN <<99, 105, 100, 58>> \o lowerHex(contentId.s)
        ELSE IF isObject /\ Is64Hex(cid) THEN <<99, 105, 100, 58>> \o lowerHex(cid.s)
        ELSE IF isObject /\ p.t = "num" /\ p.n > 0 THEN <<112, 58>> \o numText(p.n)
        ELSE IF isObject /\ ks.t = "str" /\ ks.s # <<>> THEN <<107, 115, 58>> \o ks.s
        ELSE <<104, 58>> \o fnv1a64Hex(jsonStringify(deepSortForJson(payload)))

(***************************************************************************)
(* The values put through the codec: scalars, objects of up to MaxKeys     *)
(* members, and arrays and objects that nest them.                         *)
(***************************************************************************)
MaxKeys == 2

KeyA == <<97>>

KeyB == <<98>>

\* U+00E9, and the same letter as e followed by U+0301
KeyEAcute == <<233>>

KeyEThenAcute == <<101, 769>>

KeyPulse == <<112, 117, 108, 115, 101>>

ObjectKeys == {KeyA, KeyB, KeyEAcute, KeyEThenAcute, KeyPulse}

Scalars ==
    { JNull, JBool(TRUE), JBool(FALSE), JNonFinite, JNum(0), JNum(7), JNum(-3),
      JNum(1234567890), JStr(<<>>), JStr(<<97>>), JStr(<<233>>), JStr(<<8364>>),
      JStr(<<34, 92>>), JStr(<<62, 62, 62, 63, 63, 63, 97, 98, 62, 62, 63, 63>>) }

MemberValues == {JNum(7), JStr(<<233>>), JStr(<<62, 62, 62, 63, 63, 63>>)}

DistinctKeySeqs ==
    { ks \in SeqsUpTo(ObjectKeys, MaxKeys) : \A i, j \in DOMAIN ks : i # j => ks[i] # ks[j] }

FlatObjects ==
    UNION { { JObj(ks, vs) : vs \in [DOMAIN ks -> MemberValues] } : ks \in DistinctKeySeqs }

\* Objects whose members have the same key under the collation.
TiedObjects == { o \in FlatObjects : Range(o.keys) = {KeyEAcute, KeyEThenAcute} }

NestedValues ==
    { JArr(<<>>), JArr(<<JNum(7), JNull>>), JArr(<<JNonFinite, JStr(<<97>>)>>) }
    \cup { JArr(<<o, JNum(0)>>) : o \in TiedObjects }
    \cup { JObj(<<KeyB, KeyA>>, <<o, JArr(<<o>>)>>) : o \in TiedObjects }

CodecValues == Scalars \cup FlatObjects \cup NestedValues

Reverse(s) == [i \in DOMAIN s |-> s[Len(s) + 1 - i]]

\* The same object with its members inserted in the opposite order.
reverseTop(v) == IF v.t = "obj" THEN JObj(Reverse(v.keys), Reverse(v.kids)) ELSE v

RECURSIVE reverseDeep(_)
\* The same value with the members of every object, at every depth,
\* inserted in the opposite order.
reverseDeep(v) ==
    IF v.t = "arr" THEN JArr([i \in DOMAIN v.kids |-> reverseDeep(v.kids[i])])
    ELSE IF v.t = "obj"
    THEN JObj(Reverse(v.keys), Reverse([i \in DOMAIN v.kids |-> reverseDeep(v.kids[i])]))
    ELSE v

Reorderings(v) == {v, reverseTop(v), reverseDeep(v)}

canonText(v) == jsonStringify(deepSortForJson(v))

NoCodecOut == [ref |-> <<>>, canon |-> <<>>, altCanon |-> <<>>, key |-> <<>>, altKey |-> <<>>]

CodecIdle ==
    /\ cxVal = JNull
    /\ cxAlt = JNull
    /\ cxOut = NoCodecOut
    /\ cxBack = JNull
    /\ cxPc = "idle"

\* A value and a reordering of it are handed to the codec.
CodecChoose ==
    /\ cxPc = "idle"
    /\ \E v \in CodecValues : \E w \in Reorderings(v) :
          /\ cxVal' = v
          /\ cxAlt' = w
    /\ cxOut' = NoCodecOut
    /\ cxBack' = JNull
    /\ cxPc' = "input"
    /\ UNCHANGED notCodec

\* encodePayloadRef on the value; canonical text and payloadKey of both.
CodecEncode ==
    /\ cxPc = "input"
    /\ cxOut' = [ ref |-> encodePayloadRef(cxVal),
                  canon |-> canonText(cxVal),
                  altCanon |-> canonText(cxAlt),
                  key |-> payloadKey(cxVal),
                  altKey |-> payloadKey(cxAlt) ]
    /\ cxPc' = "encoded"
    /\ UNCHANGED <<cxVal, cxAlt, cxBack, notCodec>>

\* decodePayloadRef on the ref.
CodecDecode ==
    /\ cxPc = "encoded"
    /\ cxBack' = decodePayloadRef(cxOut.ref)
    /\ cxPc' = "decoded"
    /\ UNCHANGED <<cxVal, cxAlt, cxOut, notCodec>>

CodecDiscard ==
    /\ cxPc = "decoded"
    /\ cxVal' = JNull
    /\ cxAlt' = JNull
    /\ cxOut' = NoCodecOut
    /\ cxBack' = JNull
    /\ cxPc' = "idle"
    /\ UNCHANGED notCodec

CodecNext == CodecChoose \/ CodecEncode \/ CodecDecode \/ CodecDiscard

(***************************************************************************)
(* Decode operations on arbitrary strings: decodePayloadRef and            *)
(* decodeSigilUrl.  A step that throws yields threw = TRUE; the enclosing  *)
(* try/catch decides what the caller sees.                                 *)
(***************************************************************************)
\* base64DecodeUtf8 (sigilDecode.ts): strips a "c:" prefix, maps base64url to
\* base64 when "-" or "_" occurs, pads, and rethrows what atob throws.
base64DecodeUtf8(b64) ==
    LET payload == IF HasWord(b64, 1, <<99, 58>>) THEN SubSeq(b64, 3, Len(b64)) ELSE b64
        isUrl   == \E i \in DOMAIN payload : payload[i] = 45 \/ payload[i] = 95
        s       == IF isUrl
                   THEN [i \in DOMAIN payload |-> IF payload[i] = 45 THEN 43
                                                  ELSE IF payload[i] = 95 THEN 47
                                                  ELSE payload[i]]
                   ELSE payload
        padded  == IF Len(s) % 4 = 2 THEN s \o <<61, 61>>
                   ELSE IF Len(s) % 4 = 3 THEN s \o <<61>> ELSE s
        r       == atob(padded)
    IN  IF r.ok THEN [threw |-> FALSE, text |-> utf8Decode(r.bytes)]
        ELSE [threw |-> TRUE, text |-> <<>>]

\* typeof value === "object" && value !== null
isObject(v) == v.t = "obj" \/ v.t = "arr"

SigilFailure(msg) == [escaped |-> FALSE, ok |-> FALSE, error |-> msg, val |-> JNull]

\* catch (e) { return { ok: false, error: message } }
sigilCatch(threw, msg, result) ==
    IF threw THEN SigilFailure(msg) ELSE result

\* decodeSigilUrl on a URL that new URL() parses or not, with or without a
\* p parameter of the given text.
decodeSigilUrl(parses, hasP, p) ==
    IF ~parses THEN sigilCatch(TRUE, "Invalid URL", SigilFailure(""))
    ELSE IF ~hasP \/ p = <<>> THEN SigilFailure("No ?p= payload")
    ELSE LET jsonText == base64DecodeUtf8(p) IN
         IF jsonText.threw
         THEN sigilCatch(TRUE, "The string to be decoded is not correctly encoded",
                         SigilFailure(""))
         ELSE LET parsed == jsonParse(jsonText.text) IN
              IF ~parsed.ok THEN sigilCatch(TRUE, "Unexpected token in JSON", SigilFailure(""))
              ELSE IF ~isObject(parsed.val) THEN SigilFailure("Payload is not an object")
              ELSE sigilCatch(FALSE, "",
                              [escaped |-> FALSE, ok |-> TRUE, error |-> "", val |-> parsed.val])

\* The strings handed to the decode operations: refs of values, damaged
\* and decorated variants of them, and texts that are no token at all.
LongObject == JObj(<<KeyA, KeyB>>, <<JNum(7), JStr(<<233>>)>>)

DropLast(s, k) == SubSeq(s, 1, Len(s) - k)

TokenTexts ==
    LET t == toBase64UrlFromUtf8(canonText(LongObject)) IN
    { t, PAYLOAD_PREFIX \o t, <<99, 58>> \o t,
      DropLast(t, 1), DropLast(t, 2), DropLast(t, 3), DropLast(t, 4),
      <<40>> \o PAYLOAD_PREFIX \o t \o <<41, 46>>,
      <<32>> \o t \o <<32>>,
      SubSeq(t, 1, 8) \o <<42>> \o SubSeq(t, 9, Len(t)),
      t \o <<61>>,
      <<>>, <<97, 98, 99>>, PAYLOAD_PREFIX,
      [i \in 1..16 |-> 65], [i \in 1..17 |-> 65], [i \in 1..20 |-> 95],
      toBase64UrlFromUtf8_plain(<<62, 62, 62, 63, 63, 63, 62, 62, 62, 63, 63, 63>>),
      toBase64UrlFromUtf8(canonText(JArr(<<JNum(7), JNull>>))),
      toBase64UrlFromUtf8(canonText(JStr(<<62, 62, 62, 63, 63, 63, 97, 98, 62, 62, 63, 63>>))),
      toBase64UrlFromUtf8(canonText(JObj(<<KeyA>>, <<JNum(7)>>))) }

DecodeInputs ==
    [op : {"ref"}, text : TokenTexts, parses : {TRUE}, hasP : {TRUE}]
    \cup [op : {"url"}, text : TokenTexts, parses : BOOLEAN, hasP : BOOLEAN]

NoDecodeInput == [op |-> "ref", text |-> <<>>, parses |-> TRUE, hasP |-> TRUE]

NoDecodeOut == [escaped |-> FALSE, ok |-> FALSE, error |-> "", val |-> JNull]

DecodeIdle ==
    /\ dIn = NoDecodeInput
    /\ dOut = NoDecodeOut
    /\ dPc = "idle"

\* A caller holds a string to decode.
DecodeChoose ==
    /\ dPc = "idle"
    /\ \E in \in DecodeInputs : dIn' = in
    /\ dOut' = NoDecodeOut
    /\ dPc' = "input"
    /\ UNCHANGED notDecode

\* decodePayloadRef(text)
DecodeRef ==
    /\ dPc = "input"
    /\ dIn.op = "ref"
    /\ LET r == decodePayloadRefCall(dIn.text)
       IN  dOut' = [escaped |-> r.escaped, ok |-> r.val # JNull, error |-> "", val |-> r.val]
    /\ dPc' = "done"
    /\ UNCHANGED <<dIn, notDecode>>

\* decodeSigilUrl(url)
DecodeUrl ==
    /\ dPc = "input"
    /\ dIn.op = "url"
    /\ dOut' = decodeSigilUrl(dIn.parses, dIn.hasP, dIn.text)
    /\ dPc' = "done"
    /\ UNCHANGED <<dIn, notDecode>>

DecodeDiscard ==
    /\ dPc = "done"
    /\ dIn' = NoDecodeInput
    /\ dOut' = NoDecodeOut
    /\ dPc' = "idle"
    /\ UNCHANGED notDecode

DecodeNext == DecodeChoose \/ DecodeRef \/ DecodeUrl \/ DecodeDiscard

(***************************************************************************)
(* buildPrevAddsFromChain: the ancestor list read from the ChainGraph.     *)
(***************************************************************************)
\* n.payloadRef ?? n.fallbackRef, with the payload ref ignored.
nodeRef_fallbackOnly(n) == n.fallbackRef

\* n.payloadRef ?? n.fallbackRef
nodeRef(n) == IF n.payloadRef # NoKey THEN n.payloadRef ELSE n.fallbackRef

RECURSIVE prevAddsLoop(_, _, _, _, _, _)
\* while (prevKey && steps < limit) { ... }; returns adds before the reverse.
prevAddsLoop(ch, prevKey, steps, limit, seen, adds) ==
    IF prevKey = NoKey \/ steps >= limit THEN adds
    ELSE IF prevKey \in seen THEN adds
    ELSE LET j == ChainIndex(ch, prevKey) IN
         IF j = 0 THEN adds
         ELSE prevAddsLoop(ch, ch[j].prevKey, steps + 1, limit,
                           seen \cup {prevKey}, Append(adds, nodeRef(ch[j])))

buildPrevAddsFromChain(ch, selfKey, limit) ==
    LET i       == ChainIndex(ch, selfKey)
        prevKey == IF i = 0 THEN NoKey ELSE ch[i].prevKey
    IN  Reverse(prevAddsLoop(ch, prevKey, 0, limit, {}, <<>>))

\* The graphs read: over three keys, every node absent or present with any
\* prevKey (dangling, cyclic and self links included), with or without a
\* payload ref.
AncKeys == {"k:a", "k:b", "k:c"}

AncLimits == 0..4

NodeChoices(k) ==
    {<<>>} \cup
    { << [ key |-> k, prevKey |-> pk, payloadRef |-> pr,
           fallbackRef |-> "u:" \o k, tick |-> 0 ] >> :
      pk \in AncKeys \cup {NoKey}, pr \in {NoKey, "j:" \o k} }

AncGraphs ==
    { a \o b \o c : a \in NodeChoices("k:a"), b \in NodeChoices("k:b"),
                    c \in NodeChoices("k:c") }

NoAncInput == [selfKey |-> NoKey, limit |-> 0]

AncIdle ==
    /\ aGraph = <<>>
    /\ aIn = NoAncInput
    /\ aOut = <<>>
    /\ aPc = "idle"

\* A caller is about to read the ancestors of a key.
AncChoose ==
    /\ aPc = "idle"
    /\ aGraph' \in AncGraphs
    /\ aIn' \in [selfKey : AncKeys, limit : AncLimits]
    /\ aOut' = <<>>
    /\ aPc' = "input"
    /\ UNCHANGED notAnc

\* buildPrevAddsFromChain(selfKey, limit)
AncBuild ==
    /\ aPc = "input"
    /\ aOut' = buildPrevAddsFromChain(aGraph, aIn.selfKey, aIn.limit)
    /\ aPc' = "done"
    /\ UNCHANGED <<aGraph, aIn, notAnc>>

AncDiscard ==
    /\ aPc = "done"
    /\ aGraph' = <<>>
    /\ aIn' = NoAncInput
    /\ aOut' = <<>>
    /\ aPc' = "idle"
    /\ UNCHANGED notAnc

AncNext == AncChoose \/ AncBuild \/ AncDiscard

(***************************************************************************)
(* Link producers (utils/feedPayload.ts) and the composer's onGenerate     *)
(* (KaiVerifierLink.tsx).  A payload is represented by the number of       *)
(* UTF-8 bytes of its JSON: base is everything but the attachment items,   *)
(* and an item is meta (kind, name, type, size, url) + data (the inlined   *)
(* file or the sha256 and cache url of a file-ref) + thumb (thumbnail_b64).*)
(* A link is its form and the length of the token it carries.              *)
(***************************************************************************)
TOKEN_SOFT_BUDGET == 1800

TOKEN_HARD_LIMIT == 3500

MAX_SUGGESTED_TOKEN_LEN == 7000

MaxItems == 2

RECURSIVE SumBytes(_)
SumBytes(items) ==
    IF items = <<>> THEN 0
    ELSE items[1].meta + items[1].data + items[1].thumb + SumBytes(Tail(items))

\* JSON.stringify(p) followed by TextEncoder.encode: the number of bytes
jsonBytes(p) == p.base + SumBytes(p.items)

\* toBase64Url: btoa gives 4 characters per 3 bytes, padded; the padding is
\* removed, which leaves ceil(4n/3) characters
toBase64UrlLen(n) == (4 * n + 2) \div 3

encodeFeedPayload(p) == toBase64UrlLen(jsonBytes(p))

pruneThumbnails(p) ==
    IF p.items = <<>> THEN p
    ELSE [p EXCEPT !.items =
            [i \in DOMAIN p.items |->
                IF p.items[i].kind = "file-inline" /\ p.items[i].thumb > 0
                THEN [p.items[i] EXCEPT !.thumb = 0]
                ELSE p.items[i]]]

\* the file-ref that replaces an inline file: a sha256 in hex (64) and the
\* url pathPrefix + sha ("/att/" + 64), no data and no thumbnail
fileRefOf(it) == [kind |-> "file-ref", meta |-> it.meta, data |-> 64 + 5 + 64, thumb |-> 0]

RECURSIVE materializeItems(_, _)
materializeItems(items, hasCaches) ==
    IF items = <<>> THEN <<>>
    ELSE LET it == items[1]
             rest == materializeItems(Tail(items), hasCaches)
         IN  IF it.kind # "file-inline" THEN <<it>> \o rest
             ELSE IF ~hasCaches THEN rest
             ELSE <<fileRefOf(it)>> \o rest

materializeInlineToCache(p, hasCaches) ==
    IF p.items = <<>> THEN pruneThumbnails(p)
    ELSE [p EXCEPT !.items = materializeItems(p.items, hasCaches)]

preparePayloadForLink(p, hasCaches) ==
    pruneThumbnails(materializeInlineToCache(p, hasCaches))

encodeTokenWithBudgets(p) ==
    LET token == encodeFeedPayload(pruneThumbnails(p))
    IN  [token |-> token,
         withinSoft |-> token <= TOKEN_SOFT_BUDGET,
         withinHard |-> token <= TOKEN_HARD_LIMIT]

\* `${base}/stream#t=${token}`
buildHashUrl(p) == [form |-> "hash", token |-> encodeTokenWithBudgets(p).token]

\* `${base}/stream/p/${token}` within the hard limit, else the hash form
buildPathUrl(p) ==
    LET e == encodeTokenWithBudgets(p)
    IN  [form |-> IF e.withinHard THEN "path" ELSE "hash", token |-> e.token]

\* `${base}/p~${token}` within the hard limit, else the hash form
buildSmsUrl(p) ==
    LET e == encodeTokenWithBudgets(p)
    IN  [form |-> IF e.withinHard THEN "sms" ELSE "hash", token |-> e.token]

buildFeedUrl(p) == buildPathUrl(p)

\* extractPayloadTokenFromLocation on the location of a link: the length of
\* the token it returns, or -1 for null.  encodeURIComponent leaves a
\* base64url token as it is, so the decoded token has the link's length.
extractPayloadTokenFromLocation(link) ==
    IF link.form = "hash" THEN link.token
    ELSE IF link.form = "sms" THEN link.token
    ELSE IF link.token <= TOKEN_HARD_LIMIT THEN link.token
    ELSE -1

LinkItems ==
    { [kind |-> "url", meta |-> 80, data |-> 0, thumb |-> 0],
      [kind |-> "file-ref", meta |-> 60, data |-> 133, thumb |-> 0],
      [kind |-> "file-inline", meta |-> 60, data |-> 400, thumb |-> 0],
      [kind |-> "file-inline", meta |-> 60, data |-> 1200, thumb |-> 900],
      [kind |-> "file-inline", meta |-> 60, data |-> 6000, thumb |-> 0] }

\* 2625 bytes encode to 3500 characters and 2626 bytes to 3502
LinkBases == {300, 2625, 2626}

ItemLists == UNION { [1..n -> LinkItems] : n \in 0..MaxItems }

LinkPayloads == [base : LinkBases, items : ItemLists]

NoLinkPayload == [base |-> 0, items |-> <<>>]

NoLink == [form |-> "none", token |-> 0]

UiReset == [err |-> "", warn |-> "", copied |-> FALSE, generatedUrl |-> NoLink,
            tokenLength |-> 0, busy |-> FALSE]

LinkIdle ==
    /\ lkPayload = NoLinkPayload
    /\ lkLink = NoLink
    /\ lkUi = UiReset
    /\ lkRegistered = {}
    /\ lkRead = 0
    /\ lkPc = "idle"

\* A caller holds a payload to share.
LinkChoose ==
    /\ lkPc = "idle"
    /\ lkPayload' \in LinkPayloads
    /\ lkLink' = NoLink
    /\ lkRead' = 0
    /\ lkPc' = "input"
    /\ UNCHANGED <<lkUi, lkRegistered>>
    /\ UNCHANGED notLink

Emit(link) ==
    /\ lkPc = "input"
    /\ lkLink' = link
    /\ lkPc' = "emitted"
    /\ UNCHANGED <<lkPayload, lkUi, lkRegistered, lkRead>>
    /\ UNCHANGED notLink

BuildHashUrl == Emit(buildHashUrl(lkPayload))

BuildPathUrl == Emit(buildPathUrl(lkPayload))

BuildSmsUrl == Emit(buildSmsUrl(lkPayload))

BuildFeedUrl == Emit(buildFeedUrl(lkPayload))

\* buildPreparedShareUrl: preparePayloadForLink, then buildSmsUrl
BuildPreparedShareUrl ==
    \E hasCaches \in BOOLEAN :
        Emit(buildSmsUrl(preparePayloadForLink(lkPayload, hasCaches)))

\* buildPreparedHashUrl: preparePayloadForLink, then buildHashUrl
BuildPreparedHashUrl ==
    \E hasCaches \in BOOLEAN :
        Emit(buildHashUrl(preparePayloadForLink(lkPayload, hasCaches)))

\* onGenerate of the composer, with lkPayload as its basePayload.  The
\* inputs are what the environment decides: whether the action url looks
\* like a sigil url, whether the pulse can be computed, whether the cache
\* storage exists and whether the clipboard accepts the text.
OnGenerate ==
    /\ lkPc = "input"
    /\ \E looksSigil \in BOOLEAN, pulseOk \in BOOLEAN,
          hasCaches \in BOOLEAN, clipboardOk \in BOOLEAN :
        LET warn0 == IF looksSigil THEN "" ELSE "no-sigil"
        IN  IF ~pulseOk
            THEN /\ lkUi' = [UiReset EXCEPT !.err = "pulse", !.warn = warn0]
                 /\ lkLink' = NoLink
                 /\ UNCHANGED lkRegistered
            ELSE LET prepared == preparePayloadForLink(lkPayload, hasCaches)
                     token == encodeFeedPayload(prepared)
                     shareUrl == [form |-> "path", token |-> token]
                 IN  /\ lkUi' = [err |-> "",
                                 warn |-> IF token > MAX_SUGGESTED_TOKEN_LEN
                                          THEN "large" ELSE warn0,
                                 copied |-> clipboardOk,
                                 generatedUrl |-> shareUrl,
                                 tokenLength |-> token,
                                 busy |-> FALSE]
                     /\ lkLink' = shareUrl
                     /\ lkRegistered' = lkRegistered \cup {shareUrl}
    /\ lkPc' = "emitted"
    /\ UNCHANGED <<lkPayload, lkRead>>
    /\ UNCHANGED notLink

\* The emitted link is opened and the page reads its token.
OpenLink ==
    /\ lkPc = "emitted"
    /\ lkLink # NoLink
    /\ lkRead' = extractPayloadTokenFromLocation(lkLink)
    /\ lkPc' = "opened"
    /\ UNCHANGED <<lkPayload, lkLink, lkUi, lkRegistered>>
    /\ UNCHANGED notLink

\* The caller is done with the link; the composer and the registry stay.
LinkDiscard ==
    /\ lkPc \in {"emitted", "opened"}
    /\ lkPayload' = NoLinkPayload
    /\ lkLink' = NoLink
    /\ lkRead' = 0
    /\ lkPc' = "idle"
    /\ lkRegistered' = {}
    /\ lkUi' = UiReset
    /\ UNCHANGED notLink

LinkNext ==
    \/ LinkChoose
    \/ BuildHashUrl
    \/ BuildPathUrl
    \/ BuildSmsUrl
    \/ BuildFeedUrl
    \/ BuildPreparedShareUrl
    \/ BuildPreparedHashUrl
    \/ OnGenerate
    \/ OpenLink
    \/ LinkDiscard

(***************************************************************************)
(* The persisted stores shared by several tabs.  A blob is what getItem    *)
(* returns, described by the shape of its JSON and the URLs it holds.  A   *)
(* tab runs its JavaScript to completion, but another tab is another       *)
(* process: it can run between one tab's getItem and its setItem, so a     *)
(* registry call is split at these two accesses.                           *)
(***************************************************************************)
EXPLORER_BC_NAME == "kai-sigil-registry"

FEED_BC_NAME == "kai-feed-registry"

Tabs == {1, 2}

MaxOps == 2

LsKeys == {EXPLORER_LS_KEY, FEED_LS_KEY}

TabUrls ==
    { [key |-> "t:A", thread |-> "k:1", adds |-> 0, len |-> 60],
      [key |-> "t:A", thread |-> "k:1", adds |-> 1, len |-> 60],
      [key |-> "r:B", thread |-> "k:1", adds |-> 0, len |-> 60] }

\* shape: "absent" (getItem gives null), "array" (["u1", ...]), "urls"
\* ({urls: [...]}), "map" ({"<url>": payload, ...}), "values"
\* ({id: {url: "..."}, ...}), "garbage" (not JSON)
NoBlob == [shape |-> "absent", urls |-> <<>>]

ArrayBlob(list) == [shape |-> "array", urls |-> list]

\* urlsFromUnknown(JSON.parse(raw)); the URLs of the model are non-empty,
\* trimmed and start with "http" or "/"
urlsFromUnknown(blob) ==
    IF blob.shape = "array" THEN blob.urls
    ELSE IF blob.shape = "urls" THEN blob.urls
    ELSE IF blob.shape = "map" THEN blob.urls
    ELSE IF blob.shape = "values" THEN blob.urls
    ELSE <<>>

\* readUrlList after its two guards: raw absent -> [], JSON.parse throws -> []
readUrlList(blob) ==
    IF blob.shape = "absent" THEN <<>>
    ELSE IF blob.shape = "garbage" THEN <<>>
    ELSE urlsFromUnknown(blob)

\* The read at the head of upsertUrlList: existing is filled only when the
\* parsed value is an array; JSON.parse of a broken blob throws.
upsertExisting(blob) ==
    IF blob.shape = "absent" THEN [threw |-> FALSE, existing |-> <<>>]
    ELSE IF blob.shape = "garbage" THEN [threw |-> TRUE, existing |-> <<>>]
    ELSE IF blob.shape = "array" THEN [threw |-> FALSE, existing |-> blob.urls]
    ELSE [threw |-> FALSE, existing |-> <<>>]

TabIdleRec ==
    [ pc |-> "idle", op |-> "none", key |-> EXPLORER_LS_KEY, url |-> NoUrl,
      rootKey |-> "", raw |-> NoBlob, existing |-> <<>>, next |-> <<>>,
      changed |-> FALSE, escaped |-> FALSE ]

InitialBlobs ==
    {NoBlob, [shape |-> "garbage", urls |-> <<>>]}
    \cup { [shape |-> sh, urls |-> <<u>>] :
             sh \in {"array", "urls", "map", "values"},
             u \in {x \in TabUrls : x.adds = 0 /\ x.key = "r:B"} }

TabsIdle ==
    /\ tbMode = "ok"
    /\ tbStore = [k \in LsKeys |-> NoBlob]
    /\ tbTab = [t \in Tabs |-> TabIdleRec]
    /\ tbChan = {}
    /\ tbPending = [t \in Tabs |-> FALSE]
    /\ tbSeen = [t \in Tabs |-> <<>>]
    /\ tbUpserted = {}
    /\ tbOps = 0

TabsInit ==
    /\ tbMode \in {"ok", "undefined", "quota", "throws"}
    /\ \E b \in InitialBlobs : tbStore = [k \in LsKeys |-> b]
    /\ tbTab = [t \in Tabs |-> TabIdleRec]
    /\ tbChan = {}
    /\ tbPending = [t \in Tabs |-> FALSE]
    /\ tbSeen = [t \in Tabs |-> <<>>]
    /\ tbUpserted = {}
    /\ tbOps = 0

\* A tab enters upsertUrlList(key, url) from the auto-register effect,
\* pruneFeedDuplicatesForThread(rootKey, keep), or readUrlList(key).
TabCall(t) ==
    /\ tbTab[t].pc = "idle"
    /\ tbOps < MaxOps
    /\ tbOps' = tbOps + 1
    /\ \/ \E k \in LsKeys, u \in TabUrls :
            tbTab' = [tbTab EXCEPT ![t] =
                        [TabIdleRec EXCEPT !.pc = "called", !.op = "upsert",
                                           !.key = k, !.url = u]]
       \/ \E u \in TabUrls :
            tbTab' = [tbTab EXCEPT ![t] =
                        [TabIdleRec EXCEPT !.pc = "called", !.op = "prune",
                                           !.key = FEED_LS_KEY, !.url = u,
                                           !.rootKey = threadRootKeyFromUrlLike(u)]]
       \/ \E k \in LsKeys :
            tbTab' = [tbTab EXCEPT ![t] =
                        [TabIdleRec EXCEPT !.pc = "called", !.op = "read", !.key = k]]
    /\ UNCHANGED <<tbMode, tbStore, tbChan, tbPending, tbSeen, tbUpserted>>
    /\ UNCHANGED notTabs

\* The call up to and including its getItem.  `typeof window.localStorage`
\* stands before every try block: when the access throws, the exception
\* leaves the function.
TabGet(t) ==
    LET c == tbTab[t]
        raw == tbStore[c.key]
        done(r) == [tbTab EXCEPT ![t] = [r EXCEPT !.pc = "done"]]
    IN
    /\ c.pc = "called"
    /\ IF tbMode = "throws"
       THEN tbTab' = done([c EXCEPT !.escaped = TRUE])
       ELSE IF tbMode = "undefined"
       THEN tbTab' = done(c)
       ELSE IF c.op = "upsert"
       THEN LET e == upsertExisting(raw)
                r == upsertUrlList(e.existing, c.url)
            IN  IF e.threw
                THEN tbTab' = done([c EXCEPT !.raw = raw])
                ELSE IF r.next = e.existing
                THEN tbTab' = done([c EXCEPT !.raw = raw, !.existing = e.existing,
                                             !.next = r.next])
                ELSE tbTab' = [tbTab EXCEPT ![t] =
                                 [c EXCEPT !.pc = "write", !.raw = raw,
                                           !.existing = e.existing, !.next = r.next]]
       ELSE IF c.op = "prune"
       THEN LET existing == readUrlList(raw)
            IN  tbTab' = [tbTab EXCEPT ![t] =
                            [c EXCEPT !.pc = "write", !.raw = raw, !.existing = existing,
                                      !.next = pruneFeedDuplicatesForThread(
                                                   existing, c.rootKey, c.url)]]
       ELSE tbTab' = done([c EXCEPT !.raw = raw, !.existing = readUrlList(raw)])
    /\ UNCHANGED <<tbMode, tbStore, tbChan, tbPending, tbSeen, tbUpserted, tbOps>>
    /\ UNCHANGED notTabs

\* The setItem of the call and what follows it in the same block: for an
\* upsert that changed the store, notifyExplorer / notifyFeed post
\* {type, url} on the BroadcastChannel; for a prune, notifyRegistryBatched.
\* A setItem that throws (quota) is caught.
TabSet(t) ==
    LET c == tbTab[t] IN
    /\ c.pc = "write"
    /\ IF tbMode = "quota"
       THEN /\ tbTab' = [tbTab EXCEPT ![t] = [c EXCEPT !.pc = "done"]]
            /\ UNCHANGED <<tbStore, tbChan, tbPending>>
       ELSE /\ tbStore' = [tbStore EXCEPT ![c.key] = ArrayBlob(c.next)]
            /\ tbTab' = [tbTab EXCEPT ![t] = [c EXCEPT !.pc = "done", !.changed = TRUE]]
            /\ IF c.op = "upsert"
               THEN /\ tbChan' = tbChan \cup
                          {[ from |-> t,
                             name |-> IF c.key = EXPLORER_LS_KEY
                                      THEN EXPLORER_BC_NAME ELSE FEED_BC_NAME,
                             type |-> IF c.key = EXPLORER_LS_KEY
                                      THEN "sigil:add" ELSE "feed:add",
                             url |-> c.url ]}
                    /\ UNCHANGED tbPending
               ELSE /\ tbPending' = [tbPending EXCEPT ![t] = TRUE]
                    /\ UNCHANGED tbChan
    /\ UNCHANGED <<tbMode, tbSeen, tbUpserted, tbOps>>
    /\ UNCHANGED notTabs

\* The call returns to its caller.
TabReturn(t) ==
    /\ tbTab[t].pc = "done"
    /\ tbUpserted' = IF /\ tbTab[t].op = "upsert"
                        /\ tbTab[t].key = EXPLORER_LS_KEY
                        /\ tbMode = "ok"
                        /\ tbTab[t].raw.shape \in {"absent", "array"}
                     THEN tbUpserted \cup {tbTab[t].url}
                     ELSE tbUpserted
    /\ tbTab' = [tbTab EXCEPT ![t] = TabIdleRec]
    /\ UNCHANGED <<tbMode, tbStore, tbChan, tbPending, tbSeen, tbOps>>
    /\ UNCHANGED notTabs

\* ensureRegistryBridge: bc.onmessage = () => notifyRegistryBatched(), in
\* the tab that did not post the message.
TabReceive(t) ==
    /\ tbTab[t].pc = "idle"
    /\ \E m \in tbChan :
          /\ m.from # t
          /\ tbChan' = tbChan \ {m}
          /\ tbPending' = [tbPending EXCEPT ![t] = TRUE]
    /\ UNCHANGED <<tbMode, tbStore, tbTab, tbSeen, tbUpserted, tbOps>>
    /\ UNCHANGED notTabs

\* run() of notifyRegistryBatched: the listeners re-render and re-read the
\* stores (readExplorerGlobalUrls).
TabRun(t) ==
    /\ tbTab[t].pc = "idle"
    /\ tbPending[t]
    /\ tbMode \in {"ok", "quota"}
    /\ tbPending' = [tbPending EXCEPT ![t] = FALSE]
    /\ tbSeen' = [tbSeen EXCEPT ![t] =
                    dedupPreserveOrder(readUrlList(tbStore[FEED_LS_KEY])
                                       \o readUrlList(tbStore[EXPLORER_LS_KEY]), <<>>)]
    /\ UNCHANGED <<tbMode, tbStore, tbTab, tbChan, tbUpserted, tbOps>>
    /\ UNCHANGED notTabs

TabsNext ==
    \E t \in Tabs :
        \/ TabCall(t)
        \/ TabGet(t)
        \/ TabSet(t)
        \/ TabReturn(t)
        \/ TabReceive(t)
        \/ TabRun(t)

(***************************************************************************)
(* Thread assembly (threadView of FeedCardThread).  A URL is its place     *)
(* ("s": /s/<id>, "streamP": /stream/p/<token>, "streamT": /stream#t=,     *)
(* "memory": /stream#v=2&root=j:...), the item it shows, its add chain     *)
(* (oldest first; a ref is a payload ref "j" or a token url "t") and its   *)
(* length.                                                                 *)
(***************************************************************************)
ThreadIds == {"O", "V", "R"}

\* the pulse decoded from the URL of an item
PulseOf(id) == IF id = "O" THEN 1 ELSE IF id = "R" THEN 2 ELSE IF id = "V" THEN 3 ELSE 0

TUrl(path, id, ch, len) == [path |-> path, id |-> id, chain |-> ch, len |-> len]

NoTUrl == TUrl("none", "", <<>>, 0)

isSPayloadUrl(u) == u.path = "s"

\* normalizeSeedHrefFromRef on a ref of an add chain: a payload ref becomes
\* the root-only memory stream URL, a token ref the /stream/p/<token> URL
hrefOfRef(r) ==
    IF r.form = "j" THEN TUrl("memory", r.id, <<>>, 60) ELSE TUrl("streamP", r.id, <<>>, 60)

\* extractTokenCandidates(u)[0], "" when there is none: the token of the
\* URL itself; a memory stream URL has none of its own, and the tokens of
\* its add= urls are tried next
firstToken(u) ==
    IF u.path # "memory" THEN u.id
    ELSE IF \E i \in DOMAIN u.chain : u.chain[i].form = "t"
    THEN u.chain[CHOOSE i \in DOMAIN u.chain :
                    /\ u.chain[i].form = "t"
                    /\ \A j \in 1..(i - 1) : u.chain[j].form # "t"].id
    ELSE ""

\* normalizeSeedHrefFromRef on a URL: a /stream/p URL stays as it is; any
\* other URL with a token is rebuilt from its first token as
\* /stream/p/<token>, without its adds; a URL without token stays
normalizeSeedHrefFromRef(u) ==
    IF u.path = "streamP" THEN u
    ELSE IF firstToken(u) # "" THEN TUrl("streamP", firstToken(u), <<>>, 60)
    ELSE u

\* threadSeenKey(ref) of a URL without payload: the token, or u:<url> for a
\* memory stream URL, which carries no token
urlSeenKey(u) == IF u.path = "memory" THEN <<"u", u.id>> ELSE <<"t", u.id>>

\* threadSeenKey of a ref of an add chain as originKeyFromUrlLike calls it:
\* with the decoded payload for a j: ref, by token otherwise
refSeenKey(r) == IF r.form = "j" THEN <<"k", r.id>> ELSE <<"t", r.id>>

\* originKeyFromUrlLike of a URL with its add chain: chain[0] ?? u
originKeyOfUrl(u) ==
    IF u.chain # <<>> THEN refSeenKey(u.chain[1]) ELSE urlSeenKey(u)

\* the belongs-to-thread test of threadView
belongsToThread(u, originKey) ==
    \/ originKeyOfUrl(u) = originKey
    \/ \E i \in DOMAIN u.chain :
          originKeyOfUrl(hrefOfRef(u.chain[i])) = originKey

scoreThreadUrl(u, isOrigin) ==
    LET role == IF isOrigin
                THEN (IF isSPayloadUrl(u) THEN 260 ELSE 40)
                ELSE (IF u.path = "streamT" THEN 220 ELSE 0)
                     + (IF u.path = "streamP" THEN 190 ELSE 0)
                     - (IF isSPayloadUrl(u) THEN 40 ELSE 0)
        short == Max2(0, 20 - (u.len \div 40))
        depth == Min2(200000, registryScore([adds |-> Len(u.chain), len |-> u.len]))
    IN  role + short + depth

\* index of the entry of a bestByKey list under key k, 0 when none
BestIndex(best, k) ==
    IF \E i \in DOMAIN best : best[i].key = k
    THEN CHOOSE i \in DOMAIN best : best[i].key = k
    ELSE 0

RECURSIVE pickBest(_, _, _)
\* the loop over pool filling bestByKey (a Map: entries in insertion order)
pickBest(pool, originKey, best) ==
    IF pool = <<>> THEN best
    ELSE LET canon == Head(pool)
             candKey == originKeyOfUrl(canon)
             sc == scoreThreadUrl(canon, candKey = originKey)
             i == BestIndex(best, candKey)
             entry == [key |-> candKey, url |-> canon, score |-> sc,
                       pulse |-> PulseOf(canon.id)]
         IN  IF ~belongsToThread(canon, originKey)
             THEN pickBest(Tail(pool), originKey, best)
             ELSE IF i = 0
             THEN pickBest(Tail(pool), originKey, Append(best, entry))
             ELSE IF sc > best[i].score
             THEN pickBest(Tail(pool), originKey, [best EXCEPT ![i] = entry])
             ELSE pickBest(Tail(pool), originKey, best)

RECURSIVE sortByPulse(_)
\* replies.sort((a, b) => b.pulse - a.pulse): a stable sort, newest first
sortByPulse(list) ==
    IF list = <<>> THEN <<>>
    ELSE LET m == CHOOSE i \in DOMAIN list :
                     /\ \A j \in DOMAIN list : list[j].pulse <= list[i].pulse
                     /\ \A j \in 1..(i - 1) : list[j].pulse < list[i].pulse
         IN  <<list[m]>> \o sortByPulse(SubSeq(list, 1, m - 1) \o SubSeq(list, m + 1, Len(list)))

\* computeSigilSUrl: the id of the /s url of the card, "" for null: named
\* by the capsule (view.sUrl), else /s/<first token of the url>
sigilSUrlOf(view) ==
    IF view.url.path = "s" \/ view.sUrl THEN view.url.id ELSE firstToken(view.url)

\* node.openUrl, normalized: a memory stream URL is opened as its root
\* alone, any other URL through its token
openHrefOf(view) ==
    IF view.url.path = "memory" THEN TUrl("memory", view.url.id, <<>>, 60)
    ELSE TUrl("streamP", view.url.id, <<>>, 60)

\* normalizeSeedHrefFromRef(sigilSUrl ?? node.openUrl ?? url)
selfBaseOf(view) ==
    IF sigilSUrlOf(view) # "" THEN TUrl("streamP", sigilSUrlOf(view), <<>>, 60)
    ELSE openHrefOf(view)

selfThreadKey(view) == originKeyOfUrl(selfBaseOf(view))

\* originRef = addChain[0], else sigilSUrl ?? url; originHref is its href
originHrefOf(view) ==
    IF view.url.chain # <<>> THEN hrefOfRef(view.url.chain[1])
    ELSE IF sigilSUrlOf(view) # "" THEN TUrl("streamP", sigilSUrlOf(view), <<>>, 60)
    ELSE normalizeSeedHrefFromRef(view.url)

poolOf(view, registry) ==
    dedupPreserveOrder(
        <<normalizeSeedHrefFromRef(view.url), openHrefOf(view)>>
        \o [i \in DOMAIN view.url.chain |-> hrefOfRef(view.url.chain[i])]
        \o registry, <<>>)

NoThreadView == [origin |-> NoTUrl, originKey |-> <<>>, replies |-> <<>>, best |-> <<>>]

threadView(view, registry) ==
    IF ~view.nodeOk THEN NoThreadView
    ELSE LET originHref == originHrefOf(view)
             originKey == originKeyOfUrl(originHref)
             best == pickBest(poolOf(view, registry), originKey, <<>>)
             i == BestIndex(best, originKey)
             kept == SelectSeq(best, LAMBDA e :
                        /\ e.key # originKey
                        /\ e.key # selfThreadKey(view)
                        /\ ~isSPayloadUrl(e.url))
         IN  [ origin |-> IF i = 0 THEN originHref ELSE best[i].url,
               originKey |-> originKey,
               replies |-> sortByPulse(kept),
               best |-> best ]

ThreadChains == {<<>>, <<[form |-> "j", id |-> "O"]>>, <<[form |-> "t", id |-> "O"]>>}

ThreadLens == {60, 100}

ReplyUrls ==
    { TUrl(p, id, ch, n) : p \in {"streamP", "memory", "s"}, id \in {"V", "R"},
                           ch \in ThreadChains, n \in ThreadLens }

OriginUrls == { TUrl(p, "O", <<>>, n) : p \in {"streamP", "s"}, n \in ThreadLens }

MaxPool == 2

RegistryLists == UNION { [1..n -> ReplyUrls \cup OriginUrls] : n \in 0..MaxPool }

ViewedUrls == { u \in ReplyUrls : u.id = "V" /\ u.len = 60 }

NoView == [nodeOk |-> FALSE, url |-> NoTUrl, sUrl |-> FALSE]

NoThreadInput == [view |-> NoView, registry |-> <<>>]

ThreadIdle ==
    /\ tvIn = NoThreadInput
    /\ tvOut = NoThreadView
    /\ tvPc = "idle"

\* A card is rendered: its URL, whether it decoded, and the URLs the
\* registry stores hold.
ThreadChoose ==
    /\ tvPc = "idle"
    /\ \E u \in ViewedUrls, ok \in BOOLEAN, s \in BOOLEAN, reg \in RegistryLists :
          tvIn' = [view |-> [nodeOk |-> ok, url |-> u, sUrl |-> s], registry |-> reg]
    /\ tvOut' = NoThreadView
    /\ tvPc' = "input"
    /\ UNCHANGED notThread

\* the threadView memo
ThreadCompute ==
    /\ tvPc = "input"
    /\ tvOut' = threadView(tvIn.view, tvIn.registry)
    /\ tvPc' = "done"
    /\ UNCHANGED tvIn
    /\ UNCHANGED notThread

\* The card is unmounted.
ThreadDiscard ==
    /\ tvPc = "done"
    /\ tvIn' = NoThreadInput
    /\ tvOut' = NoThreadView
    /\ tvPc' = "idle"
    /\ UNCHANGED notThread

ThreadNext == ThreadChoose \/ ThreadCompute \/ ThreadDiscard

(***************************************************************************)
(* KaiVohFlow: the posting flow of KaiVohApp.  A ComposedPost is known by   *)
(* a number, and the SealedPost, the EmbeddedMediaResult and the verifier   *)
(* data made from it carry the same number; 0 stands for null.  The         *)
(* session keeps whether it has connected accounts and the length of its    *)
(* post ledger.                                                             *)
(***************************************************************************)
FlowSteps == {"login", "connect", "compose", "seal", "embed", "share", "verify"}

Posts == {1, 2, 3}

MaxLedger == 3

NoSession == [active |-> FALSE, connected |-> FALSE, ledger |-> 0]

LoginFailures ==
    {"Malformed sigil metadata from login.", "Invalid Phi-Key shape after derivation."}

EmbedFailure == "Failed to embed Kai Signature into media."

\* What KaiVohFlow renders: the login shell, or the app shell with the
\* element renderStep returns ("error" is the kv-error-state fallback).
renderStep ==
    IF ~kvSession.active \/ kvStep = "login" THEN "login"
    ELSE IF kvStep = "connect" THEN "connect"
    ELSE IF kvStep = "compose" /\ kvPost = 0 THEN "compose"
    ELSE IF kvStep = "seal" /\ kvPost # 0 THEN "seal"
    ELSE IF kvStep = "embed" THEN "embed"
    ELSE IF kvStep = "share" /\ kvFinalMedia # 0 /\ kvSealed # 0 THEN "share"
    ELSE IF kvStep = "verify" /\ kvVerifierData # 0 THEN "verify"
    ELSE "error"

\* The SessionHud with its logout and new-post buttons is part of the app
\* shell, rendered whenever the login shell is not.
HudShown == renderStep # "login"

FlowIdle ==
    /\ kvSession = NoSession
    /\ kvStep = "login"
    /\ kvPost = 0
    /\ kvSealed = 0
    /\ kvFinalMedia = 0
    /\ kvVerifierData = 0
    /\ kvFlowError = ""

\* SigilLogin calls onVerified with metadata that passes the checks.
handleSigilVerified ==
    /\ renderStep = "login"
    /\ \E connected \in BOOLEAN :
          /\ kvSession' = [active |-> TRUE, connected |-> connected, ledger |-> 0]
          /\ kvStep' = IF connected THEN "compose" ELSE "connect"
    /\ kvFlowError' = ""
    /\ UNCHANGED <<kvPost, kvSealed, kvFinalMedia, kvVerifierData, notFlow>>

\* SigilLogin calls onVerified and a check throws: the catch block.
handleSigilRejected ==
    /\ renderStep = "login"
    /\ \E msg \in LoginFailures : kvFlowError' = msg
    /\ kvStep' = "login"
    /\ UNCHANGED <<kvSession, kvPost, kvSealed, kvFinalMedia, kvVerifierData, notFlow>>

handleLogout ==
    /\ HudShown
    /\ kvSession.active
    /\ kvSession' = NoSession
    /\ kvPost' = 0
    /\ kvSealed' = 0
    /\ kvFinalMedia' = 0
    /\ kvVerifierData' = 0
    /\ kvFlowError' = ""
    /\ kvStep' = "login"
    /\ UNCHANGED notFlow

handleNewPost ==
    /\ HudShown
    /\ kvPost' = 0
    /\ kvSealed' = 0
    /\ kvFinalMedia' = 0
    /\ kvVerifierData' = 0
    /\ kvFlowError' = ""
    /\ kvStep' = "compose"
    /\ UNCHANGED <<kvSession, notFlow>>

\* The "Continue to Compose" button of the connect step.
ContinueToCompose ==
    /\ renderStep = "connect"
    /\ kvStep' = "compose"
    /\ UNCHANGED <<kvSession, kvPost, kvSealed, kvFinalMedia, kvVerifierData,
                   kvFlowError, notFlow>>

\* PostComposer's onReady(p).
onReady ==
    /\ renderStep = "compose"
    /\ \E p \in Posts : kvPost' = p
    /\ kvSealed' = 0
    /\ kvFinalMedia' = 0
    /\ kvVerifierData' = 0
    /\ kvFlowError' = ""
    /\ kvStep' = "seal"
    /\ UNCHANGED <<kvSession, notFlow>>

\* BreathSealer's onSealComplete(sealedPost).
onSealComplete ==
    /\ renderStep = "seal"
    /\ kvSealed' = kvPost
    /\ kvStep' = "embed"
    /\ UNCHANGED <<kvSession, kvPost, kvFinalMedia, kvVerifierData, kvFlowError, notFlow>>

\* The embed effect, embedKaiSignature(sealed) resolving.
EmbedResolved ==
    /\ kvStep = "embed" /\ kvSealed # 0 /\ kvSession.active
    /\ kvFinalMedia' = kvSealed
    /\ kvVerifierData' = kvSealed
    /\ kvStep' = "share"
    /\ UNCHANGED <<kvSession, kvPost, kvSealed, kvFlowError, notFlow>>

\* The embed effect, embedKaiSignature(sealed) rejecting: the catch block.
EmbedRejected ==
    /\ kvStep = "embed" /\ kvSealed # 0 /\ kvSession.active
    /\ kvFlowError' = EmbedFailure
    /\ kvStep' = "compose"
    /\ UNCHANGED <<kvSession, kvPost, kvSealed, kvFinalMedia, kvVerifierData, notFlow>>

\* MultiShareDispatcher's onComplete(results): appendBroadcastToLedger, then
\* the verify step.
onComplete ==
    /\ renderStep = "share"
    /\ \E results \in 0..2 :
          /\ kvSession.ledger + results <= MaxLedger
          /\ kvSession' = [kvSession EXCEPT !.ledger = @ + results]
    /\ kvStep' = "verify"
    /\ UNCHANGED <<kvPost, kvSealed, kvFinalMedia, kvVerifierData, kvFlowError, notFlow>>

FlowNext ==
    \/ handleSigilVerified
    \/ handleSigilRejected
    \/ handleLogout
    \/ handleNewPost
    \/ ContinueToCompose
    \/ onReady
    \/ onSealComplete
    \/ EmbedResolved
    \/ EmbedRejected
    \/ onComplete

(***************************************************************************)
(* SegmentBuilder as a state machine: the caller (computeRememberPackNow)  *)
(* supplies a root and a de-duplicated ancestor list, then builds the pack.*)
(***************************************************************************)
NoSeg == [urlLen |-> 0, rootRef |-> NoRef, adds |-> <<>>, meta |-> [n |-> 0, a |-> 0]]

NoPack == [primary |-> NoSeg, archives |-> <<>>]

NoFit == [keepFrom |-> 0, kept |-> <<>>]

NoCall == [rootRef |-> NoRef, adds |-> <<>>, guard |-> 0]

PackIdle ==
    /\ pkRoot = NoRef
    /\ pkAdds = <<>>
    /\ pkOut = NoPack
    /\ pkFit = NoFit
    /\ pkCall = NoCall
    /\ pkPhase = "idle"

\* An arbitrary short ancestor list of mixed shapes.
ChooseMixed ==
    /\ pkPhase = "idle"
    /\ \E rl \in RootLens, shapes \in SeqsUpTo(RefShapes, MaxAdds) :
          /\ pkRoot' = [id |-> 0, kind |-> "j", len |-> rl]
          /\ pkAdds' = [i \in 1..Len(shapes) |-> MkRef(i, shapes[i])]
    /\ pkOut' = NoPack
    /\ pkFit' = NoFit
    /\ pkCall' = NoCall
    /\ pkPhase' = "input"
    /\ UNCHANGED notPack

\* A longer ancestor list of equal-sized payload refs.
ChooseUniform ==
    /\ pkPhase = "idle"
    /\ \E rl \in RootLens, l \in RefLens, n \in (MaxAdds + 1)..MaxUniform :
          /\ pkRoot' = [id |-> 0, kind |-> "j", len |-> rl]
          /\ pkAdds' = [i \in 1..n |-> [id |-> i, kind |-> "j", len |-> l]]
    /\ pkOut' = NoPack
    /\ pkFit' = NoFit
    /\ pkCall' = NoCall
    /\ pkPhase' = "input"
    /\ UNCHANGED notPack

\* A long ancestor list of payload refs so large that a segment holds one
\* of them next to its root: every level of the pack keeps one and recurses.
DeepCounts == {60, 66, 67, 68}

DeepLens == {59000}

ChooseDeep ==
    /\ pkPhase = "idle"
    /\ \E rl \in RootLens, l \in DeepLens, n \in DeepCounts :
          /\ pkRoot' = [id |-> 0, kind |-> "j", len |-> rl]
          /\ pkAdds' = [i \in 1..n |-> [id |-> i, kind |-> "j", len |-> l]]
    /\ pkOut' = NoPack
    /\ pkFit' = NoFit
    /\ pkCall' = NoCall
    /\ pkPhase' = "input"
    /\ UNCHANGED notPack

\* What a call frame leaves behind: its primary is the pack's primary (top
\* call) or the next archive, and its recursive call, if any, is pending.
AfterFrame(frame, guard) ==
    /\ pkOut' = IF guard = 0
                THEN [primary |-> frame.primary, archives |-> <<>>]
                ELSE [pkOut EXCEPT !.archives = @ \o <<frame.primary>>]
    /\ pkCall' = IF frame.more
                 THEN [rootRef |-> frame.nextRoot, adds |-> frame.dropped, guard |-> guard + 1]
                 ELSE NoCall
    /\ pkPhase' = IF frame.more THEN "building" ELSE "built"

\* buildSegmentedPack(root, adds): the top call, guard = 0.
BuildPack ==
    /\ pkPhase = "input"
    /\ AfterFrame(packFrame(pkRoot, pkAdds, 0), 0)
    /\ UNCHANGED <<pkRoot, pkAdds, pkFit, notPack>>

\* buildSegmentedPack(boundaryRoot, dropped, guard + 1): a recursive call.
PackRecurse ==
    /\ pkPhase = "building"
    /\ AfterFrame(packFrame(pkCall.rootRef, pkCall.adds, pkCall.guard), pkCall.guard)
    /\ UNCHANGED <<pkRoot, pkAdds, pkFit, notPack>>

\* segmentTailToFit(root, adds) on its own.
FitTail ==
    /\ pkPhase = "input"
    /\ pkFit' = segmentTailToFit(pkRoot, pkAdds)
    /\ pkPhase' = "fitted"
    /\ UNCHANGED <<pkRoot, pkAdds, pkOut, pkCall, notPack>>

\* The pack is recomputed from scratch on the next call: nothing persists.
DiscardPack ==
    /\ pkPhase \in {"built", "fitted"}
    /\ pkRoot' = NoRef
    /\ pkAdds' = <<>>
    /\ pkOut' = NoPack
    /\ pkFit' = NoFit
    /\ pkCall' = NoCall
    /\ pkPhase' = "idle"
    /\ UNCHANGED notPack

PackNext == ChooseMixed \/ ChooseUniform \/ ChooseDeep \/ BuildPack \/ PackRecurse \/ FitTail \/ DiscardPack

(***************************************************************************)
(* Specifications: one per component, the other components idle.           *)
(***************************************************************************)
InitPack == PackIdle /\ RegIdle /\ ChainIdle /\ WalkIdle /\ KeyIdle /\ CodecIdle /\ DecodeIdle /\ AncIdle /\ LinkIdle /\ TabsIdle /\ ThreadIdle /\ FlowIdle

NextPack == PackNext

SpecPack == InitPack /\ [][NextPack]_vars

InitReg == RegInit /\ PackIdle /\ ChainIdle /\ WalkIdle /\ KeyIdle /\ CodecIdle /\ DecodeIdle /\ AncIdle /\ LinkIdle /\ TabsIdle /\ ThreadIdle /\ FlowIdle

NextReg == RegNext

SpecReg == InitReg /\ [][NextReg]_vars

InitChain == ChainIdle /\ PackIdle /\ RegIdle /\ WalkIdle /\ KeyIdle /\ CodecIdle /\ DecodeIdle /\ AncIdle /\ LinkIdle /\ TabsIdle /\ ThreadIdle /\ FlowIdle

NextChain == ChainNext

SpecChain == InitChain /\ [][NextChain]_vars

InitChainFull == ChainFull /\ PackIdle /\ RegIdle /\ WalkIdle /\ KeyIdle /\ CodecIdle /\ DecodeIdle /\ AncIdle /\ LinkIdle /\ TabsIdle /\ ThreadIdle /\ FlowIdle

SpecChainFull == InitChainFull /\ [][NextChain]_vars

\* The event loop: a synchronous block returns, and the microtask queue is
\* drained before the next block starts.
SpecChainLive ==
    /\ InitChain
    /\ [][ChainLiveNext]_vars
    /\ WF_vars(EndTask)
    /\ WF_vars(RunNotify)

InitWalk == WalkIdle /\ PackIdle /\ RegIdle /\ ChainIdle /\ KeyIdle /\ CodecIdle /\ DecodeIdle /\ AncIdle /\ LinkIdle /\ TabsIdle /\ ThreadIdle /\ FlowIdle

NextWalk == WalkNext

\* A started call runs its loop: JavaScript executes it to completion.
SpecWalk == InitWalk /\ [][NextWalk]_vars /\ WF_vars(WalkStep)

InitKey == KeyIdle /\ PackIdle /\ RegIdle /\ ChainIdle /\ WalkIdle /\ CodecIdle /\ DecodeIdle /\ AncIdle /\ LinkIdle /\ TabsIdle /\ ThreadIdle /\ FlowIdle

NextKey == KeyNext

SpecKey == InitKey /\ [][NextKey]_vars

InitCodec == CodecIdle /\ PackIdle /\ RegIdle /\ ChainIdle /\ WalkIdle /\ KeyIdle /\ DecodeIdle /\ AncIdle /\ LinkIdle /\ TabsIdle /\ ThreadIdle /\ FlowIdle

NextCodec == CodecNext

SpecCodec == InitCodec /\ [][NextCodec]_vars

InitDecode == DecodeIdle /\ PackIdle /\ RegIdle /\ ChainIdle /\ WalkIdle /\ KeyIdle /\ CodecIdle /\ AncIdle /\ LinkIdle /\ TabsIdle /\ ThreadIdle /\ FlowIdle

NextDecode == DecodeNext

SpecDecode == InitDecode /\ [][NextDecode]_vars

InitAnc == AncIdle /\ PackIdle /\ RegIdle /\ ChainIdle /\ WalkIdle /\ KeyIdle /\ CodecIdle /\ DecodeIdle /\ LinkIdle /\ TabsIdle /\ ThreadIdle /\ FlowIdle

NextAnc == AncNext

SpecAnc == InitAnc /\ [][NextAnc]_vars

InitLink == LinkIdle /\ PackIdle /\ RegIdle /\ ChainIdle /\ WalkIdle /\ KeyIdle /\ CodecIdle /\ DecodeIdle /\ AncIdle /\ TabsIdle /\ ThreadIdle /\ FlowIdle

NextLink == LinkNext

SpecLink == InitLink /\ [][NextLink]_vars

InitTabs == TabsInit /\ PackIdle /\ RegIdle /\ ChainIdle /\ WalkIdle /\ KeyIdle /\ CodecIdle /\ DecodeIdle /\ AncIdle /\ LinkIdle /\ ThreadIdle /\ FlowIdle

NextTabs == TabsNext

SpecTabs == InitTabs /\ [][NextTabs]_vars

InitThread == ThreadIdle /\ PackIdle /\ RegIdle /\ ChainIdle /\ WalkIdle /\ KeyIdle /\ CodecIdle /\ DecodeIdle /\ AncIdle /\ LinkIdle /\ TabsIdle /\ FlowIdle

NextThread == ThreadNext

SpecThread == InitThread /\ [][NextThread]_vars

InitFlow == FlowIdle /\ PackIdle /\ RegIdle /\ ChainIdle /\ WalkIdle /\ KeyIdle /\ CodecIdle /\ DecodeIdle /\ AncIdle /\ LinkIdle /\ TabsIdle /\ ThreadIdle

NextFlow == FlowNext

SpecFlow == InitFlow /\ [][NextFlow]_vars

(***************************************************************************)
(* Claims on the SegmentBuilder                                            *)
(***************************************************************************)
PackSegments == <<pkOut.primary>> \o pkOut.archives

\* C1: for any root reference and any ancestor list, the URL of
\* buildSegmentedPack(root, adds).primary is at most URL_HARD_CAP long.
C1_PrimaryWithinCap ==
    pkPhase = "built" => pkOut.primary.urlLen <= URL_HARD_CAP

\* C2: whenever the pack is not the single full segment, every original
\* ancestor appears in the adds of exactly one returned segment.
C2_EveryAncestorExactlyOnce ==
    (pkPhase = "built" /\ pkOut.primary.adds # pkAdds) =>
        \A i \in DOMAIN pkAdds :
            Cardinality({k \in DOMAIN PackSegments :
                \E j \in DOMAIN PackSegments[k].adds :
                    PackSegments[k].adds[j] = pkAdds[i]}) = 1

\* C3: every segment of the pack, primary and archives alike, is a URL
\* within URL_HARD_CAP.
C3_EverySegmentWithinCap ==
    pkPhase = "built" =>
        \A k \in DOMAIN PackSegments : PackSegments[k].urlLen <= URL_HARD_CAP

(***************************************************************************)
(* Claims on the Registry                                                  *)
(***************************************************************************)
HasKey(store, k) == \E i \in DOMAIN store : keyForRegistryUrl(store[i]) = k

BestScore(store, k) ==
    LET S == {registryScore(store[i]) :
                 i \in {j \in DOMAIN store : keyForRegistryUrl(store[j]) = k}}
    IN  CHOOSE m \in S : \A x \in S : x <= m

\* The stored URL for key k: the first of the highest-scored entries under k.
StoredUrl(store, k) ==
    store[CHOOSE i \in DOMAIN store :
            /\ keyForRegistryUrl(store[i]) = k
            /\ registryScore(store[i]) = BestScore(store, k)
            /\ \A j \in 1..(i - 1) :
                  ~(keyForRegistryUrl(store[j]) = k
                      /\ registryScore(store[j]) = BestScore(store, k))]

UrlsUnder(store, k) == {store[i] : i \in {j \in DOMAIN store : keyForRegistryUrl(store[j]) = k}}

C5_ScoreNeverDecreases ==
    [][\A k \in RegKeys :
          (HasKey(lsStore, k) /\ HasKey(lsStore', k))
              => BestScore(lsStore', k) >= BestScore(lsStore, k)]_vars

\* C18: re-registering a URL that is already the stored best URL of its
\* key leaves the persisted list unchanged, reports changed = false and
\* triggers no explorer or feed notification.
C18_ReRegisterIdempotent ==
    (/\ regOp.kind = "upsert"
     /\ HasKey(regOp.before, regOp.url.key)
     /\ StoredUrl(regOp.before, regOp.url.key) = regOp.url) =>
        /\ regOp.after = regOp.before
        /\ ~regOp.changed
        /\ ~regOp.notified

\* C19: the registry score ranks by the number of adds first and by length
\* second: of the URL being registered and any stored URL, the one with
\* more adds has the strictly higher score whatever the two lengths, and
\* with equal adds the longer one has the higher score.
C19_AddsOutrankLength ==
    regOp.kind = "upsert" =>
        \A i \in DOMAIN regOp.before :
            LET a == regOp.url
                b == regOp.before[i]
            IN  /\ countAddsInUrl(a) > countAddsInUrl(b) => registryScore(a) > registryScore(b)
                /\ countAddsInUrl(a) < countAddsInUrl(b) => registryScore(a) < registryScore(b)
                /\ countAddsInUrl(a) = countAddsInUrl(b) =>
                      (registryScore(a) > registryScore(b) <=> a.len > b.len)

(***************************************************************************)
(* Claims on the ChainGraph                                                *)
(***************************************************************************)
TickOver == ~inTask /\ microtasks = 0

\* C6: the state-changing upserts of one tick cause exactly one
\* notification, delivered after the last of them, and the listeners are
\* shown the final state of the tick, never an intermediate one.
C6_OneNotificationPerTick ==
    /\ microtasks <= 1
    /\ (TickOver /\ batchChanged >= 1) => batchNotifs = 1
    /\ batchNotifs >= 1 =>
          /\ ~inTask
          /\ lastNotified.chain = chain
          /\ lastNotified.version = chainVersion

\* Witness of C6: a tick with two state-changing upserts ended with one
\* notification shown to a subscriber.
C6_Witness ==
    /\ TickOver
    /\ batchChanged >= 2
    /\ batchNotifs = 1
    /\ lastNotified.who # {}
    /\ lastNotified.chain = chain

\* C14: after every upsert the graph holds at most CHAIN_MAX_NODES nodes;
\* the node just upserted is there, as the newest, and the other nodes are
\* the old ones without a prefix of the insertion order: what an upsert
\* removes is older than everything that stays.
C14_EvictsOldestWithinBound ==
    /\ [](Len(chain) <= CHAIN_MAX_NODES)
    /\ [][(UpsertStep /\ chainTick' # chainTick) =>
             LET newest == chain'[Len(chain')]
                 others == SelectSeq(chain, LAMBDA n : n.key # newest.key)
                 stayed == SubSeq(chain', 1, Len(chain') - 1)
             IN  /\ newest.tick = chainTick'
                 /\ Len(stayed) <= Len(others)
                 /\ stayed = SubSeq(others, Len(others) - Len(stayed) + 1, Len(others))]_vars

\* Witness of C14: the full graph after its oldest node was upserted again
\* and a new key was added: the second-oldest node is gone, the oldest and
\* the new one are there.
C14_Witness ==
    /\ Len(chain) = CHAIN_MAX_NODES
    /\ ChainIndex(chain, ThreadKey(1)) = CHAIN_MAX_NODES - 1
    /\ ChainIndex(chain, ThreadKey(2)) = 0
    /\ chain[CHAIN_MAX_NODES].key \in ChainKeys
    /\ chain[1].key = ThreadKey(3)

RECURSIVE followPrev(_, _, _)
\* The key reached from key by n hops along prevKey; NoKey where the list
\* ends or a node is missing.
followPrev(ch, key, n) ==
    IF n = 0 \/ key = NoKey THEN key
    ELSE LET i == ChainIndex(ch, key)
         IN  IF i = 0 THEN NoKey ELSE followPrev(ch, ch[i].prevKey, n - 1)

\* C15: at all times the prevKey links of the graph are acyclic: no node
\* has itself as prevKey, and following prevKey from a node never comes
\* back to it.
C15_PrevLinksAcyclic ==
    \A i \in DOMAIN chain :
        /\ chain[i].prevKey # chain[i].key
        /\ \A n \in 1..Len(chain) : followPrev(chain, chain[i].key, n) # chain[i].key

(***************************************************************************)
(* Claims on the thread-root walk                                          *)
(***************************************************************************)
\* C7: threadRootRefFromUrlLike terminates on every input, also when the
\* previous-pointers form a cycle: every pass through the loop body adds a
\* new key to seen, the loop makes at most STEP_BOUND passes, and a started
\* call always returns.
C7_WalkTerminates ==
    /\ [](wI <= STEP_BOUND /\ Cardinality(wSeen) <= STEP_BOUND)
    /\ [][wPc = "loop" =>
            \/ wPc' = "done"
            \/ wI' = wI + 1 /\ Cardinality(wSeen') = Cardinality(wSeen) + 1]_vars
    /\ ((wPc = "loop") ~> (wPc = "done"))

\* Witness of C7: the walk went round the cycle 1 -> 2 -> 1 and stopped at
\* the repeated key.
C7_Witness ==
    /\ wPc = "done"
    /\ wIn.kind = "plain"
    /\ wIn.world.n = 2
    /\ wIn.world.loopTo = 1
    /\ wIn.world.dead = 0
    /\ wOut.stop = "seen"
    /\ wI = 2

\* The ref the walk holds after j passes along the line 1 -> ... -> n and
\* on from n to loopTo, and the payload loaded for it.
walkAt(in, j) ==
    LET w   == in.world
        ref == IF j < w.n THEN j + 1
               ELSE IF w.loopTo = 1 THEN ((j - w.n) % w.n) + 1
               ELSE w.loopTo
    IN  [ref |-> ref,
         payload |-> IF j = 0 /\ in.startPayload THEN 1 ELSE loadPayloadFromRef(w, ref)]

\* The passes whose ref could be resolved to a payload.
ResolvedPasses == {j \in 0..wI : walkAt(wIn, j).payload # 0}

\* C17: threadRootRefFromUrlLike returns the oldest entry of the explicit
\* chain when the URL carries one; otherwise, whichever way the walk stops,
\* it returns the last reference on the walk that could be resolved.
C17_ReturnsLastResolvable ==
    wPc = "done" =>
        /\ wIn.kind = "chain" => wOut.ref = wIn.world.n
        /\ (wIn.kind = "plain" /\ ResolvedPasses # {}) =>
              LET last == CHOOSE j \in ResolvedPasses : \A i \in ResolvedPasses : i <= j
              IN  wOut.ref = walkAt(wIn, last).ref

(***************************************************************************)
(* Claims on the content keys                                              *)
(***************************************************************************)
\* C8: the same capsule yields the same key in every transport form, at
\* every place that derives a key (self key, seen key, origin key, registry
\* key).
C8_KeyFormIndependent ==
    kPc = "derived" =>
        /\ kKeys.a.self = kKeys.b.self
        /\ kKeys.a.seen = kKeys.b.seen
        /\ kKeys.a.origin = kKeys.b.origin
        /\ kKeys.a.registry = kKeys.b.registry

(***************************************************************************)
(* Claims on the CanonicalCodec                                            *)
(***************************************************************************)
\* Number of UTF-8 bytes of the canonical JSON text of the value in hand.
CanonBytes == Len(utf8Encode(canonText(cxVal)))

\* Bytes whose base64 text has MIN_TOKEN_LEN characters.
MinCanonBytes == (MIN_TOKEN_LEN * 3) \div 4

\* C9 as stated: decodePayloadRef(encodePayloadRef(x)) deep-equals
\* canonicalize(x) for every value x, whatever its size or shape.
C9_RoundTripAnySize ==
    cxPc = "decoded" => deepEquals(cxBack, deepSortForJson(cxVal))

\* C9 (amended): decodePayloadRef(encodePayloadRef(x)) deep-equals
\* canonicalize(x) for every value x whose canonical JSON text has at least
\* 12 UTF-8 bytes; for a value with a shorter text the ref has fewer than 16
\* characters after the prefix and decodePayloadRef returns null.
C9_RoundTripFromMinLength ==
    cxPc = "decoded" =>
        IF CanonBytes >= MinCanonBytes
        THEN deepEquals(cxBack, deepSortForJson(cxVal))
        ELSE cxBack = JNull /\ Len(cxOut.ref) < Len(PAYLOAD_PREFIX) + MIN_TOKEN_LEN

\* Witness of C9: an object of exactly 12 canonical bytes with a non-ASCII
\* key came back from its 16-character token.
C9_Witness ==
    /\ cxPc = "decoded"
    /\ cxVal.t = "obj"
    /\ CanonBytes = MinCanonBytes
    /\ Len(cxOut.ref) = Len(PAYLOAD_PREFIX) + MIN_TOKEN_LEN
    /\ cxBack = deepSortForJson(cxVal)
    /\ cxBack # JNull

\* C10: two values that differ only in the insertion order of object keys,
\* at any depth, have the same canonical form and the same payloadKey.
C10_InsertionOrderIndependent ==
    cxPc \in {"encoded", "decoded"} =>
        /\ cxOut.canon = cxOut.altCanon
        /\ cxOut.key = cxOut.altKey

\* The suffix lengths whose segment serializes within the cap.
FittingCounts ==
    {k \in 0..Len(pkAdds) :
        buildMemoryStreamUrl(pkRoot, SliceFrom(pkAdds, Len(pkAdds) - k)).urlLen <= URL_HARD_CAP}

\* The maximal fitting suffix length; 0 where no suffix fits.
MaxFitting ==
    IF FittingCounts = {} THEN 0
    ELSE CHOOSE k \in FittingCounts : \A j \in FittingCounts : j <= k

\* 1, 2, 3, 5, 8, ... up to the longest list explored.
Fibonacci == {1, 2, 3, 5, 8, 13, 21, 34, 55, 89}

\* The kept count is the largest Fibonacci number within the maximal
\* fitting suffix length, and the kept entries are the newest ones.
C12_SnapsDownToFibonacci ==
    pkPhase = "fitted" =>
        LET keptCount == Len(pkFit.kept) IN
        /\ pkFit.kept = SliceFrom(pkAdds, Len(pkAdds) - keptCount)
        /\ pkFit.keepFrom = Len(pkAdds) - keptCount
        /\ keptCount <= MaxFitting
        /\ MaxFitting >= 1 =>
              /\ keptCount \in Fibonacci
              /\ \A f \in Fibonacci : f <= MaxFitting => f <= keptCount

\* C12: segmentTailToFit keeps the largest Fibonacci number of newest
\* ancestors that is at most the maximal fitting suffix length, never more,
\* and the segment of the fitted suffix is within URL_HARD_CAP.
C12_FittedSuffixWithinCap ==
    /\ C12_SnapsDownToFibonacci
    /\ pkPhase = "fitted" =>
          buildMemoryStreamUrl(pkRoot, pkFit.kept).urlLen <= URL_HARD_CAP

\* The recursive pack of the operator and the pack assembled call by call
\* are the same.
PackIsRecursivePack ==
    (pkPhase = "built" /\ Len(pkAdds) <= MaxUniform) =>
        pkOut = buildSegmentedPack(pkRoot, pkAdds, 0)

\* C13: buildSegmentedPack returns for every input: every recursive call
\* is made on a strictly shorter list with the guard one higher, no call is
\* made beyond the first whose guard exceeds GUARD_MAX, and that call
\* returns a root-only segment instead of recursing further.
C13_RecursionBoundedByGuard ==
    /\ [](pkPhase = "building" =>
             /\ pkCall.guard \in 1..(GUARD_MAX + 1)
             /\ pkCall.guard + Len(pkCall.adds) <= Len(pkAdds))
    /\ [][PackRecurse =>
             \/ pkPhase' = "built"
             \/ /\ pkCall'.guard = pkCall.guard + 1
                /\ Len(pkCall'.adds) < Len(pkCall.adds)]_vars
    /\ [][(PackRecurse /\ pkCall.guard > GUARD_MAX) =>
             /\ pkPhase' = "built"
             /\ pkOut'.archives[Len(pkOut'.archives)]
                    = buildMemoryStreamUrl(pkCall.rootRef, <<>>)]_vars

\* Witness of C13: a list that needs more levels than the guard allows; the
\* pack ends with the root-only segment of the call that exceeded the guard.
C13_Witness ==
    /\ pkPhase = "built"
    /\ Len(pkAdds) > GUARD_MAX + 1
    /\ Len(pkOut.archives) = GUARD_MAX + 1
    /\ pkOut.archives[GUARD_MAX + 1].adds = <<>>
    /\ pkOut.archives[GUARD_MAX].adds # <<>>

(***************************************************************************)
(* Claims on the decode operations                                         *)
(***************************************************************************)
\* The token decodePayloadRef examines in the string in hand.
RefToken ==
    LET t == stripEdgePunct(dIn.text)
    IN  IF HasWord(t, 1, PAYLOAD_PREFIX) THEN SubSeq(t, 3, Len(t)) ELSE t

\* C11: no decode operation lets an exception escape: decodePayloadRef
\* returns null for a token that is too short, outside the base64url
\* alphabet or not valid JSON, and decodeSigilUrl returns a failure result
\* with a non-empty message whenever it does not return a decoded object.
C11_NoExceptionEscapes ==
    dPc = "done" =>
        /\ ~dOut.escaped
        /\ (dIn.op = "ref" /\ (~IsTokenText(RefToken) \/ ~decodeTokenBody(RefToken).ok))
              => dOut.val = JNull
        /\ dIn.op = "url" => (dOut.ok /\ isObject(dOut.val)) \/ (~dOut.ok /\ dOut.error # "")

\* Witness of C11: atob threw inside decodePayloadRef (a token of 17
\* characters) and the caller got null.
C11_Witness ==
    /\ dPc = "done"
    /\ dIn.op = "ref"
    /\ IsTokenText(RefToken)
    /\ ~fromBase64UrlToUtf8(RefToken).ok
    /\ dOut.val = JNull
    /\ ~dOut.escaped

(***************************************************************************)
(* Claims on the ancestor list                                             *)
(***************************************************************************)
\* The key h hops before selfKey in the graph read.
Ancestor(h) == followPrev(aGraph, aIn.selfKey, h)

\* The hops 1..n all lead to nodes of the graph, no key twice.
HopsOk(n) ==
    \A h \in 1..n :
        /\ Ancestor(h) # NoKey
        /\ ChainIndex(aGraph, Ancestor(h)) # 0
        /\ \A g \in 1..(h - 1) : Ancestor(g) # Ancestor(h)

\* The number of hops until the limit, a missing node or a repeated key.
HopsVisited == CHOOSE n \in 0..aIn.limit : HopsOk(n) /\ (n = aIn.limit \/ ~HopsOk(n + 1))

C20_PathTokenWithinHardLimit ==
    lkLink.form = "path" => lkLink.token <= TOKEN_HARD_LIMIT

(***************************************************************************)
(* Claims on the persisted stores shared by tabs                           *)
(***************************************************************************)
\* C21: the persisted stores are read permissively: when a store holds a
\* legacy map-shaped blob, every read of it, the read an upsert performs
\* before it rewrites the store included, recovers the URLs of the blob.
C21_LegacyBlobRecovered ==
    \A t \in Tabs :
        (/\ tbTab[t].pc \in {"write", "done"}
         /\ tbMode \in {"ok", "quota"}
         /\ tbTab[t].raw.shape \in {"urls", "map", "values"})
        => tbTab[t].existing = tbTab[t].raw.urls

\* C22: a registry change reaches the other tabs only as a "state changed,
\* re-read" signal: no message posted on a BroadcastChannel carries a URL.
C22_SignalCarriesNoUrl ==
    \A m \in tbChan : m.url = NoUrl

\* C23: when persistent storage fails (quota exceeded, storage disabled or
\* throwing on access), every registry operation (upsert, prune, read)
\* catches the failure: no exception leaves the operation.
C23_StorageFailureCaught ==
    \A t \in Tabs : ~tbTab[t].escaped

\* C27: when two tabs sharing the persisted store run upserts whose
\* read-modify-write steps interleave, no update is lost: once both have
\* returned, the store holds, for every key upserted by either tab, a URL
\* scored at least as high as every URL upserted for that key.
C27_NoLostUpdate ==
    (\A t \in Tabs : tbTab[t].pc = "idle") =>
        \A u \in tbUpserted :
            \E i \in DOMAIN tbStore[EXPLORER_LS_KEY].urls :
                LET s == tbStore[EXPLORER_LS_KEY].urls[i]
                IN  /\ keyForRegistryUrl(s) = keyForRegistryUrl(u)
                    /\ registryScore(s) >= registryScore(u)

(***************************************************************************)
(* Claims on thread assembly                                               *)
(***************************************************************************)
\* The candidates of the pool that pass the belongs-to-thread test.
ThreadCandidates ==
    LET pool == poolOf(tvIn.view, tvIn.registry)
    IN  { pool[i] : i \in { j \in DOMAIN pool : belongsToThread(pool[j], tvOut.originKey) } }

\* C24: thread assembly groups the candidates by their own content key and
\* selects exactly one URL, the best-scoring one, per distinct content key
\* among the candidates that belong to the thread.
C24_OneBestPerContentKey ==
    (tvPc = "done" /\ tvIn.view.nodeOk) =>
        \A c \in ThreadCandidates :
            /\ Cardinality({i \in DOMAIN tvOut.best : tvOut.best[i].url.id = c.id}) = 1
            /\ \A i \in DOMAIN tvOut.best :
                  tvOut.best[i].url.id = c.id => tvOut.best[i].score >= scoreThreadUrl(c, tvOut.best[i].key = tvOut.originKey)

\* C25: the reply list of a thread view never contains the viewed item
\* itself, whichever URL form it was opened with, and its entries are
\* ordered by non-increasing pulse.
C25_RepliesExcludeSelfNewestFirst ==
    tvPc = "done" =>
        /\ \A i \in DOMAIN tvOut.replies : tvOut.replies[i].url.id # tvIn.view.url.id
        /\ \A i, j \in DOMAIN tvOut.replies :
              i < j => tvOut.replies[i].pulse >= tvOut.replies[j].pulse

\* C26: in the thread-assembly score the URL length is only a penalty and a
\* tie-break: of two candidate URLs with the same key, the same display
\* role and the same number of adds, the shorter one scores at least as
\* high as the longer one.
C26_LengthOnlyPenalizes ==
    (tvPc = "done" /\ tvIn.view.nodeOk) =>
        \A a, b \in ThreadCandidates :
            (/\ originKeyOfUrl(a) = originKeyOfUrl(b)
             /\ a.path = b.path
             /\ Len(a.chain) = Len(b.chain)
             /\ a.len < b.len)
            => scoreThreadUrl(a, originKeyOfUrl(a) = tvOut.originKey)
                  >= scoreThreadUrl(b, originKeyOfUrl(b) = tvOut.originKey)

(***************************************************************************)
(* Claims on the notifications of the ChainGraph                           *)
(***************************************************************************)
\* The listeners have not been shown the graph as it is now.
ChainUnseen == lastNotified.chain # chain

\* C28: every state-changing upsert is eventually followed by a
\* notification after that change, an upsert made by a subscriber during
\* a delivery included: while the graph has changes not yet shown, the
\* pending flag is set and a run() is queued; the flag is never set with
\* no run() queued; and the listeners are eventually shown the graph.
C28_UpsertEventuallyNotified ==
    /\ [](ChainUnseen => (chainPending /\ microtasks > 0))
    /\ [](chainPending => microtasks > 0)
    /\ (ChainUnseen ~> ~ChainUnseen)

\* Witness of C28: an upsert made during a delivery got its own run(): the
\* second run() since the block began showed the current graph to a
\* subscriber.
C28_Witness ==
    /\ ~inTask
    /\ microtasks = 0
    /\ ~chainPending
    /\ batchNotifs >= 2
    /\ chain # <<>>
    /\ lastNotified.chain = chain
    /\ lastNotified.who # {}

(***************************************************************************)
(* Claims on the feed list after the auto-register effect                  *)
(***************************************************************************)
\* The positions of the stored list whose thread-root key is k.
EntriesOfThread(list, k) ==
    {i \in DOMAIN list : threadRootKeyFromUrlLike(list[i]) = k}

\* C29: after the auto-register effect ran for a visited memory post, the
\* feed list holds exactly one entry whose thread-root key is the root key
\* of the visited thread, and that entry is the thread root href, stored
\* first; no other URL of the thread is left in the list.
C29_FeedHoldsOneRootEntry ==
    (lsKey = FEED_LS_KEY /\ regOp.kind = "upsert") =>
        /\ EntriesOfThread(lsStore, regOp.rootKey) = {1}
        /\ lsStore[1] = regOp.url

(***************************************************************************)
(* Claims on the KaiVoh posting flow                                       *)
(***************************************************************************)
\* C30: with an active session the current step always has the data its
\* screen requires (compose: no pending post; seal: a post; share: the
\* embedded media and a sealed post; verify: the verifier data), so the
\* generic error fallback is never rendered, also after a failed embed
\* returned the flow to compose.
C30_StepHasItsData ==
    kvSession.active =>
        /\ kvStep = "compose" => kvPost = 0
        /\ kvStep = "seal" => kvPost # 0
        /\ kvStep = "share" => (kvFinalMedia # 0 /\ kvSealed # 0)
        /\ kvStep = "verify" => kvVerifierData # 0
        /\ renderStep # "error"

====
